---------------------------- MODULE Spec2Model ----------------------------
(***************************************************************************)
(* A model of the voice-to-music recommendation pipeline                   *)
(* (yuvmo/emotion-music-project): MusicRecommendationPipeline.process_audio *)
(* with the intent extractor, the GigaChat service, the local recommender, *)
(* the Spotify fallback, the track validator and the metrics collector.    *)
(*                                                                         *)
(* Text is modelled as a sequence of characters, each character a string:  *)
(* an ASCII character is itself ("a"), a Cyrillic character is its code    *)
(* point ("U+0440").  Feature values in [0,1] are kept in hundredths       *)
(* (0.65 is 65), tempo in BPM.                                             *)
(***************************************************************************)
EXTENDS Integers, Sequences, FiniteSets, TLC

\* None, where the value is otherwise an atom (a language, an emotion, a reason)
NULL == "None"

\* None, where the value is otherwise a text
NoText == <<"None">>

\* a text cell of the data set without a value (pd.isna)
NaN == <<"nan">>

\* None or NaN where the value is otherwise a number (all numbers of the model are >= 0)
MISSING == 0 - 1

----------------------------------------------------------------------------
(* Tables of the source, transcribed entry by entry.                       *)

\* str.lower() on the letters of the model's alphabet (Latin A-Z, Cyrillic U+0410..U+042F, U+0401).
\* A Cyrillic character is written "U+XXXX", its code point.

LowerMap ==
    "A" :> "a" @@ "B" :> "b" @@ "C" :> "c" @@ "D" :> "d" @@ "E" :> "e" @@ "F" :> "f" @@
    "G" :> "g" @@ "H" :> "h" @@ "I" :> "i" @@ "J" :> "j" @@ "K" :> "k" @@ "L" :> "l" @@
    "M" :> "m" @@ "N" :> "n" @@ "O" :> "o" @@ "P" :> "p" @@ "Q" :> "q" @@ "R" :> "r" @@
    "S" :> "s" @@ "T" :> "t" @@ "U" :> "u" @@ "V" :> "v" @@ "W" :> "w" @@ "X" :> "x" @@
    "Y" :> "y" @@ "Z" :> "z" @@ "U+0410" :> "U+0430" @@ "U+0411" :> "U+0431" @@
    "U+0412" :> "U+0432" @@ "U+0413" :> "U+0433" @@ "U+0414" :> "U+0434" @@ "U+0415" :> "U+0435" @@
    "U+0416" :> "U+0436" @@ "U+0417" :> "U+0437" @@ "U+0418" :> "U+0438" @@ "U+0419" :> "U+0439" @@
    "U+041A" :> "U+043A" @@ "U+041B" :> "U+043B" @@ "U+041C" :> "U+043C" @@ "U+041D" :> "U+043D" @@
    "U+041E" :> "U+043E" @@ "U+041F" :> "U+043F" @@ "U+0420" :> "U+0440" @@ "U+0421" :> "U+0441" @@
    "U+0422" :> "U+0442" @@ "U+0423" :> "U+0443" @@ "U+0424" :> "U+0444" @@ "U+0425" :> "U+0445" @@
    "U+0426" :> "U+0446" @@ "U+0427" :> "U+0447" @@ "U+0428" :> "U+0448" @@ "U+0429" :> "U+0449" @@
    "U+042A" :> "U+044A" @@ "U+042B" :> "U+044B" @@ "U+042C" :> "U+044C" @@ "U+042D" :> "U+044D" @@
    "U+042E" :> "U+044E" @@ "U+042F" :> "U+044F" @@ "U+0401" :> "U+0451"

Letters ==
    DOMAIN LowerMap \cup {LowerMap[c] : c \in DOMAIN LowerMap}

Digits ==
    {"0","1","2","3","4","5","6","7","8","9"}

\* normalize_artist_name: the Cyrillic -> Latin table
translit ==
    "U+0430" :> <<"a">> @@ "U+0431" :> <<"b">> @@ "U+0432" :> <<"v">> @@ "U+0433" :> <<"g">> @@
    "U+0434" :> <<"d">> @@ "U+0435" :> <<"e">> @@ "U+0451" :> <<"e">> @@ "U+0436" :> <<"z","h">> @@
    "U+0437" :> <<"z">> @@ "U+0438" :> <<"i">> @@ "U+0439" :> <<"y">> @@ "U+043A" :> <<"k">> @@
    "U+043B" :> <<"l">> @@ "U+043C" :> <<"m">> @@ "U+043D" :> <<"n">> @@ "U+043E" :> <<"o">> @@
    "U+043F" :> <<"p">> @@ "U+0440" :> <<"r">> @@ "U+0441" :> <<"s">> @@ "U+0442" :> <<"t">> @@
    "U+0443" :> <<"u">> @@ "U+0444" :> <<"f">> @@ "U+0445" :> <<"h">> @@ "U+0446" :> <<"t","s">> @@
    "U+0447" :> <<"c","h">> @@ "U+0448" :> <<"s","h">> @@ "U+0449" :> <<"s","c","h">> @@
    "U+044A" :> <<>> @@ "U+044B" :> <<"y">> @@ "U+044C" :> <<>> @@ "U+044D" :> <<"e">> @@
    "U+044E" :> <<"y","u">> @@ "U+044F" :> <<"y","a">>

\* normalize_artist_name: the digraph replacements, in the order they are applied
replacements ==
    <<<<<<"o","o">>, <<"u">>>>, <<<<"u","u">>, <<"u">>>>, <<<<"i","i">>, <<"i">>>>, <<<<"e","e">>, <<"e">>>>, <<<<"a","a">>, <<"a">>>>, <<<<"d","j">>, <<"j">>>>, <<<<"d","z","h">>, <<"j">>>>>>

\* ARTIST_ALIASES, in dictionary order
ARTIST_ALIASES ==
  <<
    [canonical |-> <<"m","o","n","e","t","o","c","h","k","a">>,
     aliases |-> <<<<"U+043C","U+043E","U+043D","U+0435","U+0442","U+043E","U+0447","U+043A","U+0430">>, <<"U+043C","U+043E","U+043D","U+0438","U+0442","U+043E","U+0447","U+043A","U+0430">>, <<"U+043C","U+043E","U+043D","U+0435","U+0442","U+043A","U+0430">>, <<"m","o","n","e","t","k","a">>, <<"m","o","n","e","t","o","c","h","k","a">>>>],
    [canonical |-> <<"o","g"," ","b","u","d","a">>,
     aliases |-> <<<<"o","g"," ","b","u","d","a">>, <<"o","g"," ","b","o","o","d","a">>, <<"U+043E","U+0433","U+0431","U+0443","U+0434","U+0430">>, <<"U+043E","U+0434","U+0436","U+0438","U+0431","U+0443","U+0434","U+0430">>, <<"U+043E",".","U+0433",".","U+0431","U+0443","U+0434","U+0430">>, <<"o","g","b","u","d","a">>>>],
    [canonical |-> <<"s","c","r","i","p","t","o","n","i","t">>,
     aliases |-> <<<<"U+0441","U+043A","U+0440","U+0438","U+043F","U+0442","U+043E","U+043D","U+0438","U+0442">>, <<"U+0441","U+043A","U+0440","U+0438","U+043F","U+0442">>, <<"s","c","r","i","p","t","o","n","i","t","e">>, <<"U+0441","U+043A","U+0440","U+0438","U+043F","U+0442","U+043E","U+043D","U+0430","U+0439","U+0442">>>>],
    [canonical |-> <<"o","x","x","x","y","m","i","r","o","n">>,
     aliases |-> <<<<"U+043E","U+043A","U+0441","U+0438","U+043C","U+0438","U+0440","U+043E","U+043D">>, <<"U+043E","U+043A","U+0441","U+0438">>, <<"o","x","x","x","y">>, <<"o","x","y","m","i","r","o","n">>, <<"U+043E","U+043A","U+0441","U+0438","U+043C","U+0438","U+0440">>>>],
    [canonical |-> <<"f","a","c","e">>,
     aliases |-> <<<<"U+0444","U+0435","U+0439","U+0441">>, <<"U+0444","U+044D","U+0439","U+0441">>>>],
    [canonical |-> <<"m","o","r","g","e","n","s","h","t","e","r","n">>,
     aliases |-> <<<<"U+043C","U+043E","U+0440","U+0433","U+0435","U+043D","U+0448","U+0442","U+0435","U+0440","U+043D">>, <<"U+043C","U+043E","U+0440","U+0433","U+0435","U+043D">>, <<"m","o","r","g","e","n","s","t","e","r","n">>>>],
    [canonical |-> <<"k","i","z","a","r","u">>,
     aliases |-> <<<<"U+043A","U+0438","U+0437","U+0430","U+0440","U+0443">>, <<"k","i","z","a","r","y">>>>],
    [canonical |-> <<"p","h","a","r","a","o","h">>,
     aliases |-> <<<<"U+0444","U+0430","U+0440","U+0430","U+043E","U+043D">>, <<"U+0444","U+0430","U+0440","U+0430","U+043E","U+0445">>, <<"f","a","r","a","o","n">>>>],
    [canonical |-> <<"l","s","p">>,
     aliases |-> <<<<"U+043B","U+0441","U+043F">>, <<"l",".","s",".","p">>>>],
    [canonical |-> <<"m","i","y","a","g","i">>,
     aliases |-> <<<<"U+043C","U+0438","U+044F","U+0433","U+0438">>, <<"m","i","y","a","g","i">>>>],
    [canonical |-> <<"b","u","m","b","l","e"," ","b","e","e","z","y">>,
     aliases |-> <<<<"U+0431","U+0430","U+043C","U+0431","U+043B"," ","U+0431","U+0438","U+0437","U+0438">>, <<"b","u","m","b","l","e">>, <<"U+0431","U+0430","U+043C","U+0431","U+043B","U+0431","U+0438">>>>],
    [canonical |-> <<"b","i","g"," ","b","a","b","y"," ","t","a","p","e">>,
     aliases |-> <<<<"U+0431","U+0438","U+0433"," ","U+0431","U+0435","U+0439","U+0431","U+0438"," ","U+0442","U+0435","U+0439","U+043F">>, <<"b","b","t">>, <<"b","i","g","b","a","b","y","t","a","p","e">>>>],
    [canonical |-> <<"b","u","s","h","i","d","o"," ","z","h","o">>,
     aliases |-> <<<<"U+0431","U+0443","U+0448","U+0438","U+0434","U+043E"," ","U+0436","U+043E">>, <<"b","u","s","h","i","d","o">>>>],
    [canonical |-> <<"m","a","y","o","t">>,
     aliases |-> <<<<"U+043C","U+0430","U+0439","U+043E","U+0442">>, <<"m","a","y","o","t">>>>],
    [canonical |-> <<"s","e","e","m","e","e">>,
     aliases |-> <<<<"U+0441","U+0438","U+043C","U+0438">>, <<"s","i","m","i">>, <<"s","e","e","m","e","e">>>>],
    [canonical |-> <<"1","0","4">>,
     aliases |-> <<<<"1","0","4">>, <<"U+0441","U+0442","U+043E"," ","U+0447","U+0435","U+0442","U+044B","U+0440","U+0435">>>>],
    [canonical |-> <<"o","b","l","a","d","a","e","t">>,
     aliases |-> <<<<"U+043E","U+0431","U+043B","U+0430","U+0434","U+0430","U+0435","U+0442">>, <<"o","b","l","a","d","a","e","t">>>>],
    [canonical |-> <<"m","a","r","k","u","l">>,
     aliases |-> <<<<"U+043C","U+0430","U+0440","U+043A","U+0443","U+043B">>, <<"m","a","r","k","u","l">>>>],
    [canonical |-> <<"f","e","d","u","k">>,
     aliases |-> <<<<"U+0444","U+0435","U+0434","U+0443","U+043A">>, <<"f","e","d","u","k">>>>],
    [canonical |-> <<"g","o","n","e",".","f","l","u","d","d">>,
     aliases |-> <<<<"U+0433","U+043E","U+043D"," ","U+0444","U+043B","U+0430","U+0434">>, <<"U+0433","U+043E","U+043D","U+0444","U+043B","U+0430","U+0434">>, <<"g","o","n","e"," ","f","l","u","d","d">>, <<"g","o","n","e","f","l","u","d","d">>>>],
    [canonical |-> <<"t","h","o","m","a","s"," ","m","r","a","z">>,
     aliases |-> <<<<"U+0442","U+043E","U+043C","U+0430","U+0441"," ","U+043C","U+0440","U+0430","U+0437">>, <<"m","r","a","z">>>>],
    [canonical |-> <<"c","r","e","a","m"," ","s","o","d","a">>,
     aliases |-> <<<<"U+043A","U+0440","U+0435","U+043C"," ","U+0441","U+043E","U+0434","U+0430">>, <<"c","r","e","a","m","s","o","d","a">>>>],
    [canonical |-> <<"U+0442","U+0440","U+0438"," ","U+0434","U+043D","U+044F"," ","U+0434","U+043E","U+0436","U+0434","U+044F">>,
     aliases |-> <<<<"U+0442","U+0440","U+0438"," ","U+0434","U+043D","U+044F"," ","U+0434","U+043E","U+0436","U+0434","U+044F">>, <<"3"," ","U+0434","U+043D","U+044F"," ","U+0434","U+043E","U+0436","U+0434","U+044F">>>>],
    [canonical |-> <<"U+043C","U+0430","U+043A","U+0441"," ","U+043A","U+043E","U+0440","U+0436">>,
     aliases |-> <<<<"U+043C","U+0430","U+043A","U+0441"," ","U+043A","U+043E","U+0440","U+0436">>, <<"U+043A","U+043E","U+0440","U+0436">>, <<"m","a","k","s"," ","k","o","r","z","h">>>>],
    [canonical |-> <<"U+0445","U+043B","U+0435","U+0431">>,
     aliases |-> <<<<"U+0445","U+043B","U+0435","U+0431">>, <<"h","l","e","b">>>>],
    [canonical |-> <<"U+043A","U+0438","U+0441","-","U+043A","U+0438","U+0441">>,
     aliases |-> <<<<"U+043A","U+0438","U+0441","-","U+043A","U+0438","U+0441">>, <<"U+043A","U+0438","U+0441","U+043A","U+0438","U+0441">>, <<"k","i","s"," ","k","i","s">>>>],
    [canonical |-> <<"U+043F","U+043E","U+0448","U+043B","U+0430","U+044F"," ","U+043C","U+043E","U+043B","U+043B","U+0438">>,
     aliases |-> <<<<"U+043F","U+043E","U+0448","U+043B","U+0430","U+044F"," ","U+043C","U+043E","U+043B","U+043B","U+0438">>, <<"m","o","l","l","y">>>>]
  >>

GENRE_KEYWORDS ==
  <<
    [genre |-> "pop", keywords |-> {<<"p","o","p">>, <<"U+043F","U+043E","U+043F">>, <<"U+043F","U+043E","U+043F","U+0441">>}],
    [genre |-> "dance", keywords |-> {<<"d","a","n","c","e">>, <<"U+0434","U+044D","U+043D","U+0441">>, <<"U+0442","U+0430","U+043D","U+0446">>}],
    [genre |-> "electronic", keywords |-> {<<"e","d","m">>, <<"e","l","e","c","t","r","o","n","i","c">>, <<"h","o","u","s","e">>, <<"t","e","c","h","n","o">>, <<"t","r","a","n","c","e">>, <<"U+0442","U+0435","U+0445","U+043D","U+043E">>, <<"U+0442","U+0440","U+0430","U+043D","U+0441">>, <<"U+0445","U+0430","U+0443","U+0441">>, <<"U+044D","U+043B","U+0435","U+043A","U+0442","U+0440","U+043E","U+043D">>}],
    [genre |-> "indie", keywords |-> {<<"i","n","d","i","e">>, <<"U+0438","U+043D","U+0434","U+0438">>}],
    [genre |-> "hip_hop", keywords |-> {<<"h","i","p">>, <<"h","o","p">>, <<"U+0445","U+0438","U+043F">>, <<"U+0445","U+043E","U+043F">>}],
    [genre |-> "rap", keywords |-> {<<"r","a","p">>, <<"U+0440","U+0435","U+043F">>, <<"U+0440","U+044D","U+043F">>, <<"U+0440","U+044D","U+043F","U+0447","U+0438","U+043A">>}],
    [genre |-> "trap", keywords |-> {<<"t","r","a","p">>, <<"U+0442","U+0440","U+0435","U+043F">>, <<"U+0442","U+0440","U+044D","U+043F">>}],
    [genre |-> "rnb", keywords |-> {<<"r","&","b">>, <<"r","n","b">>, <<"U+0440","U+0438","U+0442","U+043C">>, <<"U+0440","U+043D","U+0431">>}],
    [genre |-> "rock", keywords |-> {<<"r","o","c","k">>, <<"U+0440","U+043E","U+043A">>}],
    [genre |-> "metal", keywords |-> {<<"m","e","t","a","l">>, <<"U+043C","U+0435","U+0442","U+0430","U+043B">>, <<"U+043C","U+0435","U+0442","U+0430","U+043B","U+043B">>}],
    [genre |-> "punk", keywords |-> {<<"p","u","n","k">>, <<"U+043F","U+0430","U+043D","U+043A">>}],
    [genre |-> "alternative", keywords |-> {<<"a","l","t","e","r","n","a","t","i","v","e">>, <<"U+0430","U+043B","U+044C","U+0442">>, <<"U+0430","U+043B","U+044C","U+0442","U+0435","U+0440","U+043D","U+0430","U+0442","U+0438","U+0432">>}],
    [genre |-> "classical", keywords |-> {<<"c","l","a","s","s","i","c","a","l">>, <<"o","r","c","h","e","s","t","r">>, <<"s","y","m","p","h","o","n">>, <<"U+043A","U+043B","U+0430","U+0441","U+0441","U+0438","U+043A">>, <<"U+043E","U+0440","U+043A","U+0435","U+0441","U+0442">>, <<"U+0441","U+0438","U+043C","U+0444","U+043E","U+043D">>}],
    [genre |-> "instrumental", keywords |-> {<<"i","n","s","t","r","u","m","e","n","t","a","l">>, <<"p","i","a","n","o">>, <<"U+0438","U+043D","U+0441","U+0442","U+0440","U+0443","U+043C","U+0435","U+043D","U+0442">>, <<"U+043F","U+0438","U+0430","U+043D">>, <<"U+0444","U+043E","U+0440","U+0442","U+0435","U+043F","U+0438","U+0430","U+043D","U+043E">>}],
    [genre |-> "ambient", keywords |-> {<<"a","m","b","i","e","n","t">>, <<"U+0430","U+043C","U+0431","U+0438","U+0435","U+043D","U+0442">>, <<"U+044D","U+043C","U+0431","U+0438","U+0435","U+043D","U+0442">>}],
    [genre |-> "jazz", keywords |-> {<<"j","a","z","z">>, <<"U+0434","U+0436","U+0430","U+0437">>}],
    [genre |-> "folk", keywords |-> {<<"f","o","l","k">>, <<"U+043D","U+0430","U+0440","U+043E","U+0434","U+043D">>, <<"U+0444","U+043E","U+043B","U+043A">>}],
    [genre |-> "latin", keywords |-> {<<"l","a","t","i","n">>, <<"r","e","g","g","a","e","t","o","n">>, <<"U+043B","U+0430","U+0442","U+0438","U+043D","U+043E">>, <<"U+0440","U+0435","U+0433","U+0435","U+0442","U+043E","U+043D">>}],
    [genre |-> "soundtrack", keywords |-> {<<"s","c","o","r","e">>, <<"s","o","u","n","d","t","r","a","c","k">>, <<"U+043A","U+0438","U+043D","U+043E">>, <<"U+0441","U+0430","U+0443","U+043D","U+0434","U+0442","U+0440","U+0435","U+043A">>, <<"U+0444","U+0438","U+043B","U+044C","U+043C">>}],
    [genre |-> "blues", keywords |-> {<<"b","l","u","e","s">>, <<"U+0431","U+043B","U+044E","U+0437">>}]
  >>

\* LANGUAGE_KEYWORDS, in the order extract_language consults them
LANGUAGE_KEYWORDS ==
  <<
    [language |-> "instrumental", keywords |-> <<<<"U+0438","U+043D","U+0441","U+0442","U+0440","U+0443","U+043C","U+0435","U+043D","U+0442","U+0430","U+043B">>, <<"U+0431","U+0435","U+0437"," ","U+0441","U+043B","U+043E","U+0432">>, <<"U+0431","U+0435","U+0437"," ","U+0432","U+043E","U+043A","U+0430","U+043B">>, <<"U+0444","U+043E","U+043D","U+043E","U+0432">>, <<"U+0441","U+0430","U+0443","U+043D","U+0434","U+0442","U+0440","U+0435","U+043A">>, <<"U+0431","U+0435","U+0437"," ","U+0442","U+0435","U+043A","U+0441","U+0442">>>>],
    [language |-> "ru", keywords |-> <<<<"U+0440","U+0443","U+0441","U+0441","U+043A">>, <<"U+0440","U+043E","U+0441","U+0441","U+0438","U+0439","U+0441","U+043A">>, <<"U+043F","U+043E","-","U+0440","U+0443","U+0441","U+0441","U+043A">>, <<"U+043E","U+0442","U+0435","U+0447","U+0435","U+0441","U+0442","U+0432","U+0435","U+043D">>, <<"U+043D","U+0430","U+0448">>>>],
    [language |-> "en", keywords |-> <<<<"U+0430","U+043D","U+0433","U+043B","U+0438","U+0439","U+0441","U+043A">>, <<"U+043F","U+043E","-","U+0430","U+043D","U+0433","U+043B","U+0438","U+0439","U+0441","U+043A">>, <<"e","n","g","l","i","s","h">>, <<"U+0430","U+043D","U+0433","U+043B","U+043E","U+044F","U+0437","U+044B","U+0447","U+043D">>, <<"U+0437","U+0430","U+0440","U+0443","U+0431","U+0435","U+0436","U+043D">>, <<"U+0438","U+043D","U+043E","U+0441","U+0442","U+0440","U+0430","U+043D">>>>]
  >>

MOOD_KEYWORDS ==
  <<
    [mood |-> "happy", keywords |-> <<<<"U+0432","U+0435","U+0441","U+0435","U+043B">>, <<"U+0440","U+0430","U+0434","U+043E","U+0441","U+0442">>, <<"U+043F","U+043E","U+0437","U+0438","U+0442","U+0438","U+0432">>, <<"U+0436","U+0438","U+0437","U+043D","U+0435","U+0440","U+0430","U+0434","U+043E","U+0441","U+0442">>, <<"U+0441","U+0447","U+0430","U+0441","U+0442","U+043B">>, <<"U+0445","U+043E","U+0440","U+043E","U+0448">>, <<"U+043E","U+0442","U+043B","U+0438","U+0447","U+043D">>>>],
    [mood |-> "sad", keywords |-> <<<<"U+0433","U+0440","U+0443","U+0441","U+0442","U+043D">>, <<"U+043F","U+0435","U+0447","U+0430","U+043B","U+044C","U+043D">>, <<"U+0442","U+043E","U+0441","U+043A","U+043B">>, <<"U+043C","U+0435","U+043B","U+0430","U+043D","U+0445","U+043E","U+043B">>, <<"U+043F","U+043B","U+043E","U+0445">>, <<"U+043E","U+0434","U+0438","U+043D","U+043E","U+043A">>, <<"U+0433","U+043E","U+0440","U+0435">>>>],
    [mood |-> "energetic", keywords |-> <<<<"U+044D","U+043D","U+0435","U+0440","U+0433","U+0438","U+0447","U+043D">>, <<"U+0431","U+043E","U+0434","U+0440">>, <<"U+0434","U+0440","U+0430","U+0439","U+0432">>, <<"U+0430","U+043A","U+0442","U+0438","U+0432","U+043D">>, <<"U+043C","U+043E","U+0449","U+043D">>, <<"U+0437","U+0430","U+0436","U+0438","U+0433","U+0430","U+0442","U+0435","U+043B","U+044C","U+043D">>>>],
    [mood |-> "calm", keywords |-> <<<<"U+0441","U+043F","U+043E","U+043A","U+043E","U+0439","U+043D">>, <<"U+0440","U+0430","U+0441","U+0441","U+043B","U+0430","U+0431">>, <<"U+0442","U+0438","U+0445">>, <<"U+0443","U+043C","U+0438","U+0440","U+043E","U+0442","U+0432","U+043E","U+0440">>, <<"U+043C","U+044F","U+0433","U+043A">>, <<"U+043D","U+0435","U+0436","U+043D">>, <<"U+0443","U+044E","U+0442","U+043D">>>>],
    [mood |-> "angry", keywords |-> <<<<"U+0437","U+043B","U+043E","U+0441","U+0442">>, <<"U+0430","U+0433","U+0440","U+0435","U+0441","U+0441","U+0438","U+0432">>, <<"U+044F","U+0440","U+043E","U+0441","U+0442">>, <<"U+0431","U+0435","U+0448","U+0435","U+043D">>, <<"U+0434","U+0438","U+043A">>, <<"U+0436","U+0451","U+0441","U+0442","U+043A">>, <<"U+0436","U+0435","U+0441","U+0442","U+043A">>>>],
    [mood |-> "romantic", keywords |-> <<<<"U+0440","U+043E","U+043C","U+0430","U+043D","U+0442","U+0438","U+0447","U+043D">>, <<"U+043B","U+044E","U+0431","U+043E","U+0432">>, <<"U+043D","U+0435","U+0436","U+043D">>, <<"U+0447","U+0443","U+0432","U+0441","U+0442","U+0432","U+0435","U+043D">>, <<"U+043B","U+0438","U+0440","U+0438","U+0447","U+043D">>>>],
    [mood |-> "nostalgic", keywords |-> <<<<"U+043D","U+043E","U+0441","U+0442","U+0430","U+043B","U+044C","U+0433">>, <<"U+0441","U+0442","U+0430","U+0440","U+044B","U+0445">>, <<"U+043F","U+0440","U+043E","U+0448","U+043B">>, <<"U+0440","U+0435","U+0442","U+0440","U+043E">>, <<"U+0432","U+0438","U+043D","U+0442","U+0430","U+0436">>>>],
    [mood |-> "party", keywords |-> <<<<"U+0432","U+0435","U+0447","U+0435","U+0440","U+0438","U+043D","U+043A">>, <<"U+0442","U+0443","U+0441","U+043E","U+0432","U+043A">>, <<"U+043A","U+043B","U+0443","U+0431">>, <<"U+0442","U+0430","U+043D","U+0446","U+043F","U+043E","U+043B">>, <<"U+043F","U+0430","U+0442","U+0438">>, <<"U+0434","U+0432","U+0438","U+0436">>>>]
  >>

PLAY_KEYWORDS ==
  {
    <<"p","l","a","y">>, <<"p","u","t">>, <<"s","t","a","r","t">>,
    <<"U+0432","U+043A","U+043B","U+044E","U+0447","U+0438">>,
    <<"U+0432","U+043E","U+0441","U+043F","U+0440","U+043E","U+0438","U+0437","U+0432","U+0435","U+0434","U+0438">>,
    <<"U+0434","U+0430","U+0432","U+0430","U+0439">>, <<"U+0434","U+0430","U+0439">>,
    <<"U+0437","U+0430","U+043F","U+0443","U+0441","U+0442","U+0438">>,
    <<"U+043D","U+0430","U+0439","U+0434","U+0438">>,
    <<"U+043F","U+043E","U+0434","U+0431","U+0435","U+0440","U+0438">>,
    <<"U+043F","U+043E","U+0440","U+0435","U+043A","U+043E","U+043C","U+0435","U+043D","U+0434","U+0443","U+0439">>,
    <<"U+043F","U+043E","U+0441","U+0442","U+0430","U+0432","U+044C">>,
    <<"U+043F","U+0440","U+043E","U+0438","U+0433","U+0440","U+0430","U+0439">>,
    <<"U+0445","U+043E","U+0447","U+0443">>
  }

stop_words ==
  {
    <<"U+0430">>, <<"U+0432">>, <<"U+0432","U+043A","U+043B","U+044E","U+0447","U+0438">>,
    <<"U+0432","U+0447","U+0435","U+0440","U+0430">>, <<"U+0432","U+044B">>, <<"U+0434","U+0430">>,
    <<"U+0434","U+0430","U+0432","U+0430","U+0439">>, <<"U+0434","U+0430","U+0439">>,
    <<"U+0434","U+043B","U+044F">>, <<"U+0435","U+0449","U+0435">>, <<"U+0435","U+0449","U+0451">>,
    <<"U+0438">>, <<"U+0438","U+043B","U+0438">>, <<"U+043A">>, <<"U+043A","U+0430","U+043A">>,
    <<"U+043A","U+0430","U+043A","U+0438","U+0435">>,
    <<"U+043A","U+0430","U+043A","U+043E","U+0439">>,
    <<"U+043A","U+0430","U+043A","U+0443","U+044E">>, <<"U+043B","U+0438","U+0431","U+043E">>,
    <<"U+043C","U+043D","U+0435">>, <<"U+043C","U+043E","U+0436","U+0435","U+0448","U+044C">>,
    <<"U+043C","U+043E","U+0436","U+043D","U+043E">>, <<"U+043C","U+043E","U+0438">>,
    <<"U+043C","U+043E","U+0439">>, <<"U+043C","U+043E","U+044F">>,
    <<"U+043C","U+0443","U+0437","U+044B","U+043A">>, <<"U+043C","U+044B">>, <<"U+043D","U+0430">>,
    <<"U+043D","U+0435">>, <<"U+043D","U+0435","U+043C","U+043D","U+043E","U+0433","U+043E">>,
    <<"U+043D","U+0435","U+0442">>, <<"U+043D","U+0438","U+0431","U+0443","U+0434","U+044C">>,
    <<"U+043D","U+043E">>, <<"U+043D","U+0443","U+0436","U+043D","U+0430">>,
    <<"U+043D","U+0443","U+0436","U+043D","U+043E">>, <<"U+043E","U+043D">>,
    <<"U+043E","U+043D","U+0430">>, <<"U+043E","U+043D","U+0438">>, <<"U+043E","U+043D","U+043E">>,
    <<"U+043E","U+0442">>, <<"U+043E","U+0447","U+0435","U+043D","U+044C">>,
    <<"U+043F","U+0435","U+0441","U+043D">>, <<"U+043F","U+043E">>, <<"U+043F","U+043E","U+0434">>,
    <<"U+043F","U+043E","U+0441","U+043B","U+0443","U+0448","U+0430","U+0442","U+044C">>,
    <<"U+043F","U+043E","U+0441","U+0442","U+0430","U+0432","U+044C">>,
    <<"U+043F","U+043E","U+0442","U+043E","U+043C">>,
    <<"U+043F","U+0440","U+043E","U+0441","U+0442","U+043E">>, <<"U+0441">>,
    <<"U+0441","U+0435","U+0433","U+043E","U+0434","U+043D","U+044F">>,
    <<"U+0441","U+0435","U+0439","U+0447","U+0430","U+0441">>,
    <<"U+0441","U+043B","U+0443","U+0448","U+0430","U+0442","U+044C">>,
    <<"U+0442","U+0430","U+043A","U+0430","U+044F">>,
    <<"U+0442","U+0430","U+043A","U+0436","U+0435">>,
    <<"U+0442","U+0430","U+043A","U+0438","U+0435">>,
    <<"U+0442","U+0430","U+043A","U+043E","U+0439">>, <<"U+0442","U+0432","U+043E","U+0439">>,
    <<"U+0442","U+0435","U+0431","U+0435">>, <<"U+0442","U+043E","U+0436","U+0435">>,
    <<"U+0442","U+043E","U+043B","U+044C","U+043A","U+043E">>, <<"U+0442","U+043E","U+0442">>,
    <<"U+0442","U+0440","U+0435","U+043A">>, <<"U+0442","U+044B">>, <<"U+0443","U+0436","U+0435">>,
    <<"U+0445","U+043E","U+0447","U+0435","U+0442","U+0441","U+044F">>,
    <<"U+0445","U+043E","U+0447","U+0443">>, <<"U+0447","U+0442","U+043E">>,
    <<"U+0447","U+0443","U+0442","U+044C">>, <<"U+044D","U+0442","U+043E">>, <<"U+044F">>
  }

GENRE_MAPPING ==
    "pop" :> {"pop", "dance pop", "russian pop", "classic russian pop"} @@
    "dance" :> {"dance", "dance pop", "edm", "russian dance pop"} @@
    "electronic" :> {"electronic", "edm", "house", "techno", "trance", "russian electronic"} @@
    "indie" :> {"indie", "indie pop", "russian indie", "indie rock"} @@
    "hip_hop" :> {"hip hop", "russian hip hop", "southern hip hop"} @@
    "rap" :> {"rap", "pop rap", "russian hip hop", "trap"} @@
    "trap" :> {"trap", "russian trap"} @@
    "rnb" :> {"r&b", "urban contemporary"} @@
    "rock" :> {"rock", "russian rock", "classic russian rock", "modern rock", "hard rock"} @@
    "metal" :> {"metal", "russian metal", "russian folk metal", "russian black metal"} @@
    "punk" :> {"punk", "russian punk", "russian post-punk"} @@
    "alternative" :> {"alternative", "russian alternative"} @@
    "classical" :> {"classical", "russian classical piano", "symphony"} @@
    "instrumental" :> {"instrumental", "piano", "ambient"} @@
    "ambient" :> {"ambient", "chill"} @@
    "jazz" :> {"jazz"} @@
    "folk" :> {"folk", "russian folk", "russian folk metal"} @@
    "latin" :> {"latin", "reggaeton", "tropical"} @@
    "soundtrack" :> {"soundtrack", "score"} @@
    "blues" :> {"blues"}

----------------------------------------------------------------------------
(* Text operations of the Python standard library, as the code uses them.  *)

\* In on a value that is evaluated once: LET name == value IN In(name)
Let(value, In(_)) == In(value)

\* the least element of a non-empty set of numbers
MinOf(S) == CHOOSE x \in S : \A y \in S : x <= y

\* a function on 1..n as the list of its values
AsList(f) == SubSeq(f, 1, Len(f))

\* str.lower(), one character
LowerChar(c) == IF c \in DOMAIN LowerMap THEN LowerMap[c] ELSE c

\* str.lower()
Lower(s) == AsList([i \in 1..Len(s) |-> LowerChar(s[i])])

\* the characters str.strip() removes (the model's alphabet has one white space)
Whitespace == {" "}

RECURSIVE LStrip(_)
LStrip(s) == IF s # <<>> /\ Head(s) \in Whitespace THEN LStrip(Tail(s)) ELSE s

RECURSIVE RStrip(_)
RStrip(s) ==
    IF s # <<>> /\ s[Len(s)] \in Whitespace THEN RStrip(SubSeq(s, 1, Len(s) - 1)) ELSE s

\* str.strip()
Strip(s) == RStrip(LStrip(s))

\* str.strip(chars)
RECURSIVE StripChars(_, _)
StripChars(s, chars) ==
    IF s # <<>> /\ Head(s) \in chars THEN StripChars(Tail(s), chars)
    ELSE IF s # <<>> /\ s[Len(s)] \in chars THEN StripChars(SubSeq(s, 1, Len(s) - 1), chars)
    ELSE s

\* str.startswith
StartsWith(s, prefix) ==
    Len(prefix) <= Len(s) /\ SubSeq(s, 1, Len(prefix)) = prefix

\* str.endswith
EndsWith(s, suffix) ==
    Len(suffix) <= Len(s) /\ SubSeq(s, Len(s) - Len(suffix) + 1, Len(s)) = suffix

\* the Python test "sub in s" on strings
Contains(sub, s) ==
    \E i \in 1..(Len(s) - Len(sub) + 1) : SubSeq(s, i, i + Len(sub) - 1) = sub

\* str.replace(old, new): left to right, occurrences that do not overlap
\* the elements of a sequence
Range(s) == {s[i] : i \in DOMAIN s}

Min2(a, b) == IF a <= b THEN a ELSE b

Max2(a, b) == IF a >= b THEN a ELSE b

\* "".join(parts), joined by halves
RECURSIVE Concat(_)
Concat(parts) ==
    IF Len(parts) = 0 THEN <<>>
    ELSE IF Len(parts) = 1 THEN parts[1]
    ELSE LET half == Len(parts) \div 2
         IN  Concat(SubSeq(parts, 1, half)) \o Concat(SubSeq(parts, half + 1, Len(parts)))

\* whether old occurs in s at position p
OccursAt(s, old, p) ==
    p >= 1 /\ p + Len(old) - 1 <= Len(s) /\ SubSeq(s, p, p + Len(old) - 1) = old

\* whether str.replace replaces an occurrence that starts at p: the scan from
\* the left takes an occurrence unless it starts inside one it has taken
RECURSIVE Replaced(_, _, _)
Replaced(s, old, p) ==
    /\ OccursAt(s, old, p)
    /\ \A q \in Max2(1, p - Len(old) + 1)..(p - 1) : ~Replaced(s, old, q)

\* str.replace(old, new), old not empty
Replace(s, old, new) ==
    Concat([p \in 1..Len(s) |->
              IF Replaced(s, old, p) THEN new
              ELSE IF \E q \in Max2(1, p - Len(old) + 1)..(p - 1) : Replaced(s, old, q)
                   THEN <<>>
                   ELSE <<s[p]>>])

\* the characters the regular expression \w matches
WordChars == Letters \cup Digits \cup {"_"}

\* re.findall(r"\w+", s): the maximal runs of word characters, in order
\* the maximal runs of the characters of chars in s, in order
Runs(s, chars) ==
    LET starts == {i \in 1..Len(s) : s[i] \in chars /\ (i = 1 \/ s[i - 1] \notin chars)}
        end(i) == MinOf({j \in i..Len(s) : j = Len(s) \/ s[j + 1] \notin chars})
        nth(k) == CHOOSE p \in starts : Cardinality({q \in starts : q < p}) = k - 1
    IN  AsList([k \in 1..Cardinality(starts) |-> SubSeq(s, nth(k), end(nth(k)))])

\* re.findall(r'\w+', s)
FindWords(s) == Runs(s, WordChars)


----------------------------------------------------------------------------
(* src/recommender/music.py: artist name resolution                        *)

\* the characters removed by re.sub(r'[\.\-\s\'\"\,]+', '', name)
SeparatorChars == {".", "-", " ", "'", "\"", ","}

RECURSIVE ApplyReplacements(_, _)
ApplyReplacements(s, i) ==
    IF i > Len(replacements) \/ s = <<>> THEN s
    ELSE ApplyReplacements(Replace(s, replacements[i][1], replacements[i][2]), i + 1)

\* translit.get(char, char) for every character, joined
Transliterate(name) ==
    Concat([i \in 1..Len(name) |->
              IF name[i] \in DOMAIN translit THEN translit[name[i]] ELSE <<name[i]>>])

normalize_artist_name(name) ==
    IF name = <<>> THEN <<>>
    ELSE ApplyReplacements(
             Transliterate(SelectSeq(Strip(Lower(name)), LAMBDA c : c \notin SeparatorChars)), 1)

\* One row of the dynamic programme: current_row for the i-th character c1
\* of s1. The loop sets current_row[j + 1] to the least of
\* previous_row[j + 1] + 1, current_row[j] + 1 and previous_row[j] + (c1 != c2);
\* unrolled over current_row[j], that is the least of start[k] + (j - k) over
\* the cells k up to j, where start[k] is what cell k gets from the previous row.
LevRow(c1, s2, previous_row, i) ==
    LET start == [k \in 1..(Len(s2) + 1) |->
                    IF k = 1 THEN i
                    ELSE Min2(previous_row[k] + 1,
                              previous_row[k - 1] + (IF c1 # s2[k - 1] THEN 1 ELSE 0))]
    IN  AsList([j \in 1..(Len(s2) + 1) |-> MinOf({start[k] + (j - k) : k \in 1..j})])

\* the rows from the i-th character of s1 on; every row has len(s2) + 1 cells
RECURSIVE LevRows(_, _, _, _)
LevRows(s1, s2, i, previous_row) ==
    IF i <= Len(s1) /\ Len(previous_row) = Len(s2) + 1
    THEN LevRows(s1, s2, i + 1, LevRow(s1[i], s2, previous_row, i))
    ELSE previous_row[Len(previous_row)]

levenshtein_distance(s1, s2) ==
    LET long  == IF Len(s1) < Len(s2) THEN s2 ELSE s1
        short == IF Len(s1) < Len(s2) THEN s1 ELSE s2
    IN  IF Len(short) = 0 THEN Len(long)
        ELSE LevRows(long, short, 1, AsList([j \in 1..(Len(short) + 1) |-> j - 1]))

\* threshold = 0.7, in tenths
FUZZY_THRESHOLD == 7

\* fuzzy_artist_match on the two normalised names
FuzzyNormMatch(q_norm, c_norm) ==
    IF q_norm = <<>> \/ c_norm = <<>> THEN FALSE
    ELSE IF q_norm = c_norm THEN TRUE
    ELSE IF Contains(q_norm, c_norm) \/ Contains(c_norm, q_norm) THEN TRUE
    ELSE \* 1 - distance / max_len >= 0.7
         10 * (Max2(Len(q_norm), Len(c_norm)) - levenshtein_distance(q_norm, c_norm))
             >= FUZZY_THRESHOLD * Max2(Len(q_norm), Len(c_norm))

fuzzy_artist_match(query, candidate) ==
    FuzzyNormMatch(normalize_artist_name(query), normalize_artist_name(candidate))

\* the edit distance at or below which a query is taken for an alias
ALIAS_MAX_DISTANCE == 2

\* the test of the inner loop of resolve_artist_alias
AliasMatches(query_lower, query_norm, alias) ==
    \E alias_norm \in {normalize_artist_name(alias)} :
        \/ query_norm = alias_norm
        \/ query_lower = Lower(alias)
        \/ levenshtein_distance(query_norm, alias_norm) <= ALIAS_MAX_DISTANCE

\* the entries of the alias table with an alias that matches the query
AliasHits(table, query_lower, query_norm) ==
    {row \in 1..Len(table) :
        \E a \in 1..Len(table[row].aliases) :
            AliasMatches(query_lower, query_norm, table[row].aliases[a])}

\* the canonical name of the first entry that matches, or the query itself
FirstCanonical(table, hits, query) ==
    IF hits = {} THEN query ELSE table[MinOf(hits)].canonical

ResolveLower(query, query_lower) ==
    FirstCanonical(ARTIST_ALIASES,
                   AliasHits(ARTIST_ALIASES, query_lower, normalize_artist_name(query_lower)),
                   query)

resolve_artist_alias(query) == ResolveLower(query, Strip(Lower(query)))

----------------------------------------------------------------------------
(* src/intent/extractor.py                                                 *)

tokenize(text) == FindWords(Lower(text))

extract_genres(text) ==
    LET tokens == tokenize(text)
    IN  {GENRE_KEYWORDS[g].genre : g \in
            {g \in 1..Len(GENRE_KEYWORDS) :
                \E t \in 1..Len(tokens) : \E kw \in GENRE_KEYWORDS[g].keywords :
                    StartsWith(tokens[t], kw) \/ Contains(kw, tokens[t])}}

RECURSIVE FirstLanguage(_, _)
FirstLanguage(text_lower, i) ==
    IF i > Len(LANGUAGE_KEYWORDS) THEN NULL
    ELSE IF \E k \in 1..Len(LANGUAGE_KEYWORDS[i].keywords) :
                Contains(LANGUAGE_KEYWORDS[i].keywords[k], text_lower)
         THEN LANGUAGE_KEYWORDS[i].language
         ELSE FirstLanguage(text_lower, i + 1)

extract_language(text) == FirstLanguage(Lower(text), 1)

\* the moods found, in the order of MOOD_KEYWORDS
extract_mood(text) ==
    LET text_lower == Lower(text)
        hit(i) == \E k \in 1..Len(MOOD_KEYWORDS[i].keywords) :
                      Contains(MOOD_KEYWORDS[i].keywords[k], text_lower)
        idx == SelectSeq([i \in 1..Len(MOOD_KEYWORDS) |-> i], hit)
    IN  [n \in 1..Len(idx) |-> MOOD_KEYWORDS[idx[n]].mood]

extract_play_intent(text) ==
    \E t \in Range(tokenize(text)) : t \in PLAY_KEYWORDS

MAX_KEYWORDS == 5

MIN_KEYWORD_LEN == 3

extract_keywords(text) ==
    LET keep(t) == Len(t) >= MIN_KEYWORD_LEN /\ t \notin stop_words
        keywords == SelectSeq(tokenize(text), keep)
    IN  SubSeq(keywords, 1, Min2(MAX_KEYWORDS, Len(keywords)))

\* A variant of the extractor that takes the Latin letters of the transcript
\* for the artist. C30_NoArtistOnFallback tells it from extract_user_intent.
extract_user_intent_artist(text, audio_emotion, audio_emotion_confidence) ==
    IF text = NoText \/ Strip(text) = <<>>
    THEN [audio_emotion |-> audio_emotion,
          audio_emotion_confidence |-> audio_emotion_confidence,
          language |-> NULL, genres |-> {}, mood_keywords |-> <<>>,
          play_intent |-> FALSE, transcript |-> <<>>, artist |-> NoText, keywords |-> <<>>]
    ELSE [audio_emotion |-> audio_emotion,
          audio_emotion_confidence |-> audio_emotion_confidence,
          language |-> extract_language(text),
          genres |-> extract_genres(text),
          mood_keywords |-> extract_mood(text),
          play_intent |-> extract_play_intent(text),
          transcript |-> Strip(text),
          artist |-> IF \E i \in 1..Len(text) : text[i] \in Letters /\ Len(text[i]) = 1
                     THEN SelectSeq(text, LAMBDA c : c \in Letters /\ Len(c) = 1)
                     ELSE NoText,
          keywords |-> extract_keywords(text)]

\* IntentExtractor.extract; text is NoText for a missing transcript
extract_user_intent(text, audio_emotion, audio_emotion_confidence) ==
    IF text = NoText \/ Strip(text) = <<>>
    THEN [audio_emotion |-> audio_emotion,
          audio_emotion_confidence |-> audio_emotion_confidence,
          language |-> NULL, genres |-> {}, mood_keywords |-> <<>>,
          play_intent |-> FALSE, transcript |-> <<>>, artist |-> NoText, keywords |-> <<>>]
    ELSE [audio_emotion |-> audio_emotion,
          audio_emotion_confidence |-> audio_emotion_confidence,
          language |-> extract_language(text),
          genres |-> extract_genres(text),
          mood_keywords |-> extract_mood(text),
          play_intent |-> extract_play_intent(text),
          transcript |-> Strip(text),
          artist |-> NoText,
          keywords |-> extract_keywords(text)]

----------------------------------------------------------------------------
(* Bounds of the model.                                                    *)

\* process_audio and recommend are called with top_k in 1..MaxTopK
MaxTopK == 4

\* the data sets are made of the first NumRows rows of ROWS
NumRows == 4

----------------------------------------------------------------------------
(* src/recommender/music.py: the catalog and recommend.                    *)
(* A row of the data set has the columns of data/tracks_cleaned.csv that   *)
(* recommend reads: spotify_id, name, artist, year, genres (parsed at load *)
(* into genres_parsed, here a set), language and the five features; a text  *)
(* cell without a value is NaN, a numeric cell without a value is MISSING. *)

FEATURE_COLUMNS == <<"valence", "energy", "danceability", "acousticness", "tempo">>

\* FEATURE_WEIGHTS, in tenths
FEATURE_WEIGHTS ==
    "valence" :> 15 @@ "energy" :> 12 @@ "danceability" :> 10 @@
    "acousticness" :> 8 @@ "tempo" :> 5

\* fillna(0.5) for the features in [0,1], in hundredths
DEFAULT_FEATURE == 50

\* fillna(120) for tempo
DEFAULT_TEMPO == 120

Row(id, name, artist, year, genres, language, valence, energy, danceability, acousticness, tempo) ==
    [spotify_id |-> id, name |-> name, artist |-> artist, year |-> year,
     genres_parsed |-> genres, language |-> language,
     valence |-> valence, energy |-> energy, danceability |-> danceability,
     acousticness |-> acousticness, tempo |-> tempo]

\* The rows the data sets of the model are made of: two pairs of rows whose
\* names differ only in case or surrounding white space (t1-t2, t3-t6),
\* artists that match the query "face" exactly (t1), as a substring (t2, t5)
\* and only fuzzily (t3), a row without artist (t4), a list-encoded artist (t5).
ROWS ==
    << Row("t1", <<"A">>, <<"F","a","c","e">>, 2005, {"russian rock"}, "ru",
           90, 90, 90, 90, 180),
       Row("t2", <<"a"," ">>, <<"F","a","c","e"," ","x">>, 1999, {"pop"}, "ru",
           20, 30, 30, 30, 80),
       Row("t3", <<"b">>, <<"F","a","s","e">>, MISSING, {}, "en",
           30, 30, MISSING, 30, MISSING),
       Row("t4", <<"c">>, NaN, 2005, {"rock"}, "other",
           25, 35, 35, 30, 90),
       Row("t5", <<"U+044F">>, <<"[","'","F","a","c","e","'",","," ","'","x","'","]">>, 2010,
           {"russian rock", "pop"}, "ru",
           60, 60, 60, 30, 120),
       Row("t6", <<"B">>, <<"Q","u","e","e","n">>, 2005, {"rock"}, "en",
           32, 30, 30, 30, 85),
       Row("t7", <<" ","C">>, <<"f",".","a",".","c",".","e">>, 2001, {"jazz"}, "en",
           80, 20, 20, 70, 100) >>

\* the rows of ROWS at the positions in S, in the order of ROWS
RECURSIVE RowsAt(_, _)
RowsAt(S, i) ==
    IF i > Len(ROWS) THEN <<>>
    ELSE (IF i \in S THEN <<ROWS[i]>> ELSE <<>>) \o RowsAt(S, i + 1)

\* the data sets recommend is checked on: every selection of the first NumRows rows
Datasets == {RowsAt(S, 1) : S \in SUBSET (1..NumRows)}

\* ast.literal_eval on a cell that holds a list of quoted strings, such as
\* ['a', 'b']: the items, or ParseError where Python raises (the cells of the
\* model hold no other literals).
ParseError == <<"ParseError">>

RECURSIVE ParseItems(_, _)
ParseItems(s, acc) ==
    LET t == LStrip(s)
    IN  IF t = <<>> THEN acc
        ELSE IF Head(t) \notin {"'", "\""} THEN ParseError
        ELSE LET q    == Head(t)
                 body == Tail(t)
                 ends == {i \in 1..Len(body) : body[i] = q}
             IN  IF ends = {} THEN ParseError
                 ELSE LET e    == CHOOSE i \in ends : \A k \in ends : i <= k
                          item == SubSeq(body, 1, e - 1)
                          rest == LStrip(SubSeq(body, e + 1, Len(body)))
                      IN  IF rest = <<>> THEN Append(acc, item)
                          ELSE IF Head(rest) = "," THEN ParseItems(Tail(rest), Append(acc, item))
                          ELSE ParseError

literal_eval(s) ==
    LET t == Strip(s)
    IN  IF StartsWith(t, <<"[">>) /\ EndsWith(t, <<"]">>) /\ Len(t) >= 2
        THEN ParseItems(SubSeq(t, 2, Len(t) - 1), <<>>)
        ELSE ParseError

BracketQuoteChars == {"[", "]", "'", "\""}

\* recommend.match_artist_exact
match_artist_exact(raw, artist_lower) ==
    IF raw = NaN THEN FALSE
    ELSE Let(Lower(raw), LAMBDA raw_str :
             IF StartsWith(raw_str, <<"[">>)
             THEN Let(literal_eval(raw_str), LAMBDA parsed :
                      IF parsed # ParseError /\ Len(parsed) = 1
                      THEN Lower(parsed[1]) = artist_lower
                      ELSE StripChars(raw_str, BracketQuoteChars) = artist_lower)
             ELSE raw_str = artist_lower)

\* recommend.match_artist_partial
match_artist_partial(raw, artist_lower) ==
    IF raw = NaN THEN FALSE
    ELSE Let(Lower(raw), LAMBDA raw_str :
             \/ /\ StartsWith(raw_str, <<"[">>)
                /\ Let(literal_eval(raw_str), LAMBDA parsed :
                       /\ parsed # ParseError
                       /\ \E a \in 1..Len(parsed) : Contains(artist_lower, Lower(parsed[a])))
             \/ Contains(artist_lower, raw_str))

\* recommend.match_artist_fuzzy
match_artist_fuzzy(raw, artist_lower) ==
    IF raw = NaN THEN FALSE
    ELSE Let(Lower(raw), LAMBDA raw_str :
             \/ /\ StartsWith(raw_str, <<"[">>)
                /\ Let(literal_eval(raw_str), LAMBDA parsed :
                       /\ parsed # ParseError
                       /\ \E a \in 1..Len(parsed) :
                              fuzzy_artist_match(artist_lower, Lower(parsed[a])))
             \/ fuzzy_artist_match(artist_lower, raw_str))

\* df[df[col].apply(match)]: the rows of df that test keeps, in order
Filter(df, test(_)) == SelectSeq(df, test)

\* The filter set is read with filters.get(key) alone, so a key that is
\* missing and a key that holds None are one case: filters is a record with
\* the five keys, and "no value" is NULL for the language, NoText for the
\* artist, the empty set for the genres and 0 for a year (each is false in
\* Python, as "", [] and 0 are).
TruthyText(t) == t # NoText /\ t # <<>>

TruthyAtom(a) == a # NULL /\ a # ""

\* the artist names a request asks for in the model
q_face == <<"F","a","c","e">>
q_feys == <<"U+0424","U+0435","U+0439","U+0441">>                 \* Фейс, an alias of face
q_abba == <<"A","b","b","a">>

ArtistQueries == <<q_face, q_feys, q_abba>>

\* resolve_artist_alias on the names of ArtistQueries, computed once
ResolvedQueries ==
    AsList([i \in 1..Len(ArtistQueries) |-> resolve_artist_alias(ArtistQueries[i])])

\* resolve_artist_alias(artist), looked up in ResolvedQueries where it is there
Resolved(artist) ==
    IF \E i \in 1..Len(ArtistQueries) : ArtistQueries[i] = artist
    THEN ResolvedQueries[CHOOSE i \in 1..Len(ArtistQueries) : ArtistQueries[i] = artist]
    ELSE resolve_artist_alias(artist)

\* A variant of the artist branch without the order of the tiers: the fuzzy
\* tier alone decides. C8_TiersInOrder tells it from ArtistTiers.
ArtistTiersFuzzyOnly(df, artist_lower) ==
    Let(Filter(df, LAMBDA r : match_artist_fuzzy(r.artist, artist_lower)), LAMBDA fuzzy_match :
        [tiers |-> <<"exact", "partial", "fuzzy">>, artist_found |-> Len(fuzzy_match) > 0,
         artist_df |-> fuzzy_match, hits |-> <<<<>>, <<>>, fuzzy_match>>])

\* The artist branch of recommend: the tiers evaluated, in order, and the
\* hit set of the first tier that has a hit.
ArtistTiers(df, artist_lower) ==
    Let(Filter(df, LAMBDA r : match_artist_exact(r.artist, artist_lower)), LAMBDA exact_match :
        IF Len(exact_match) > 0
        THEN [tiers |-> <<"exact">>, artist_found |-> TRUE, artist_df |-> exact_match,
              hits |-> <<exact_match>>]
        ELSE
    Let(Filter(df, LAMBDA r : match_artist_partial(r.artist, artist_lower)), LAMBDA partial_match :
        IF Len(partial_match) > 0
        THEN [tiers |-> <<"exact", "partial">>, artist_found |-> TRUE,
              artist_df |-> partial_match, hits |-> <<exact_match, partial_match>>]
        ELSE
    Let(Filter(df, LAMBDA r : match_artist_fuzzy(r.artist, artist_lower)), LAMBDA fuzzy_match :
        [tiers |-> <<"exact", "partial", "fuzzy">>, artist_found |-> Len(fuzzy_match) > 0,
         artist_df |-> fuzzy_match, hits |-> <<exact_match, partial_match, fuzzy_match>>])))

\* artist = resolve_artist_alias(artist); artist_lower = artist.lower().strip()
ArtistSearch(df, artist) == ArtistTiers(df, Strip(Lower(Resolved(artist))))

NoArtistSearch ==
    [tiers |-> <<>>, artist_found |-> FALSE, artist_df |-> <<>>, hits |-> <<>>]

\* filtered = df[...]; if len(filtered) >= top_k: df = filtered
KeepIfEnough(df, filtered, top_k) == IF Len(filtered) >= top_k THEN filtered ELSE df

_expand_genres(genre_filters) ==
    UNION {IF g \in DOMAIN GENRE_MAPPING THEN GENRE_MAPPING[g] ELSE {g} : g \in genre_filters}

LanguageFilter(df, filters, top_k) ==
    LET language == filters.language
    IN  IF TruthyAtom(language) /\ language # "other" /\ language # "any"
        THEN KeepIfEnough(df, Filter(df, LAMBDA r : r.language = language), top_k)
        ELSE df

GenreFilter(df, filters, top_k) ==
    LET genres == filters.genres
    IN  IF genres # {}
        THEN LET expanded_genres == _expand_genres(genres)
             IN  KeepIfEnough(df,
                     Filter(df, LAMBDA r : r.genres_parsed \cap expanded_genres # {}), top_k)
        ELSE df

YearStartFilter(df, filters, top_k) ==
    LET year_start == filters.year_start
    IN  IF year_start # 0
        THEN KeepIfEnough(df, Filter(df, LAMBDA r : r.year # MISSING /\ r.year >= year_start), top_k)
        ELSE df

YearEndFilter(df, filters, top_k) ==
    LET year_end == filters.year_end
    IN  IF year_end # 0
        THEN KeepIfEnough(df, Filter(df, LAMBDA r : r.year # MISSING /\ r.year <= year_end), top_k)
        ELSE df

\* A variant of the cascade that considers the genre before the language.
\* C20_CascadeInOrder tells it from FilterCascade.
FilterCascadeGenreFirst(df, filters, top_k) ==
    YearEndFilter(YearStartFilter(LanguageFilter(GenreFilter(df, filters, top_k),
                                                 filters, top_k), filters, top_k), filters, top_k)

\* the non-artist branch: language, then genre, then year_start, then year_end
FilterCascade(df, filters, top_k) ==
    YearEndFilter(YearStartFilter(GenreFilter(LanguageFilter(df, filters, top_k),
                                              filters, top_k), filters, top_k), filters, top_k)

\* A variant of the reset that keeps the language filter whatever it leaves.
\* C28_ResetGivesWholeCatalog tells it from SafetyReset.
SafetyResetKeepsLanguage(full, filters, top_k) ==
    LET language == filters.language
    IN  IF TruthyAtom(language) /\ language # "other"
        THEN Filter(full, LAMBDA r : r.language = language)
        ELSE full

\* the reset: the whole data set again, with the language filter alone
SafetyReset(full, filters, top_k) ==
    LET language == filters.language
    IN  IF TruthyAtom(language) /\ language # "other"
        THEN KeepIfEnough(full, Filter(full, LAMBDA r : r.language = language), top_k)
        ELSE full

\* _calculate_distance without the square root and scaled to an integer:
\* 4 900 000 times the square of the distance the code computes.  The order of
\* two distances is the order of their squares.
FeatureDiff(row, feature, target) ==
    IF feature = "tempo"
    THEN (IF row[feature] = MISSING THEN DEFAULT_TEMPO ELSE row[feature]) - target
    ELSE (IF row[feature] = MISSING THEN DEFAULT_FEATURE ELSE row[feature]) - target

RECURSIVE DistanceFrom(_, _, _)
DistanceFrom(row, target_features, i) ==
    IF i > Len(FEATURE_COLUMNS) THEN 0
    ELSE LET feature == FEATURE_COLUMNS[i]
             rest    == DistanceFrom(row, target_features, i + 1)
         IN  IF feature \notin DOMAIN target_features THEN rest
             ELSE LET diff == FeatureDiff(row, feature, target_features[feature])
                  IN  IF feature = "tempo"
                      THEN FEATURE_WEIGHTS[feature] * diff * diff * 25 + rest
                      ELSE FEATURE_WEIGHTS[feature] * diff * diff * 49 + rest

_calculate_distance(row, target_features) == DistanceFrom(row, target_features, 1)

\* df["name"].str.lower().str.strip(), and name.lower().strip() in the loop
name_lower(name) == Strip(Lower(name))

\* drop_duplicates(subset=["name_lower"], keep="first")
drop_duplicates(df) ==
    LET idx == SelectSeq([i \in 1..Len(df) |-> i],
                   LAMBDA i : \A j \in 1..(i - 1) : name_lower(df[j].name) # name_lower(df[i].name))
    IN  AsList([n \in 1..Len(idx) |-> df[idx[n]]])

\* nsmallest(n, "distance"): ascending distance, rows of equal distance in
\* their order in df, at most n rows
nsmallest(df, n, target_features) ==
    LET d(i)      == _calculate_distance(df[i], target_features)
        before(i) == Cardinality({j \in 1..Len(df) : d(j) < d(i) \/ (d(j) = d(i) /\ j < i)})
        sorted    == [r \in 1..Len(df) |-> df[CHOOSE i \in 1..Len(df) : before(i) = r - 1]]
    IN  SubSeq(sorted, 1, Min2(n, Len(sorted)))

UNKNOWN_ARTIST == <<"U","n","k","n","o","w","n"," ","A","r","t","i","s","t">>

UnknownArtistSpellings ==
    {<<"n","a","n">>, <<"n","o","n","e">>, <<"u","n","k","n","o","w","n">>, <<"[","]">>, <<>>}

\* ", ".join(parts)
RECURSIVE JoinComma(_)
JoinComma(parts) ==
    IF parts = <<>> THEN <<>>
    ELSE IF Len(parts) = 1 THEN parts[1]
    ELSE parts[1] \o <<",", " ">> \o JoinComma(Tail(parts))

\* the display artist of a row (the data set has the one artist column)
RawArtist(raw) ==
    IF raw = NaN THEN <<>>
    ELSE IF StartsWith(raw, <<"[">>) /\ EndsWith(raw, <<"]">>)
         THEN Let(literal_eval(raw), LAMBDA parsed :
                  IF parsed = ParseError THEN StripChars(raw, BracketQuoteChars)
                  ELSE IF parsed = <<>> THEN <<>>
                  ELSE IF Len(parsed) = 1 THEN parsed[1] ELSE JoinComma(parsed))
         ELSE raw

TrackArtist(raw) ==
    Let(RawArtist(raw), LAMBDA track_artist :
        IF Lower(track_artist) \in UnknownArtistSpellings THEN UNKNOWN_ARTIST ELSE track_artist)

\* Track(...) of a row; distance is the scaled square of _calculate_distance
Track(row, target_features) ==
    [spotify_id |-> row.spotify_id, name |-> row.name, artist |-> TrackArtist(row.artist),
     year |-> row.year,
     genres |-> row.genres_parsed, language |-> row.language,
     distance |-> _calculate_distance(row, target_features)]

\* A variant of the loop that does not stop at top_k tracks.
\* C6_AtMostTopKDistinct tells it from CollectTracks.
RECURSIVE CollectTracksNoStop(_, _, _, _, _)
CollectTracksNoStop(df, target_features, top_k, seen_names, tracks) ==
    IF df = <<>> THEN tracks
    ELSE LET name_key == name_lower(Head(df).name)
         IN  IF name_key \in seen_names
             THEN CollectTracksNoStop(Tail(df), target_features, top_k, seen_names, tracks)
             ELSE CollectTracksNoStop(Tail(df), target_features, top_k,
                                      seen_names \cup {name_key},
                                      Append(tracks, Track(Head(df), target_features)))

\* the loop over the ranked rows: skip a name already seen, stop at top_k tracks
RECURSIVE CollectTracks(_, _, _, _, _)
CollectTracks(df, target_features, top_k, seen_names, tracks) ==
    IF df = <<>> \/ Len(tracks) >= top_k THEN tracks
    ELSE LET name_key == name_lower(Head(df).name)
         IN  IF name_key \in seen_names
             THEN CollectTracks(Tail(df), target_features, top_k, seen_names, tracks)
             ELSE CollectTracks(Tail(df), target_features, top_k, seen_names \cup {name_key},
                                Append(tracks, Track(Head(df), target_features)))

\* A variant of the working set whose reset does not ask whether an artist
\* was found. C21_ArtistSetUntouched tells it from WorkingSet.
WorkingSetResetAlways(full, filters, top_k) ==
    Let(IF TruthyText(filters.artist) THEN ArtistSearch(full, filters.artist) ELSE NoArtistSearch,
        LAMBDA search :
    Let(IF search.artist_found THEN search.artist_df ELSE FilterCascade(full, filters, top_k),
        LAMBDA filtered :
    Let(Len(filtered) < top_k, LAMBDA reset :
        [tiers |-> search.tiers, hits |-> search.hits, artist_found |-> search.artist_found,
         artist_df |-> search.artist_df, filtered |-> filtered, reset |-> reset,
         df |-> IF reset THEN SafetyReset(full, filters, top_k) ELSE filtered])))

\* The working set recommend hands to ranking, with what decided it.
WorkingSet(full, filters, top_k) ==
    Let(IF TruthyText(filters.artist) THEN ArtistSearch(full, filters.artist) ELSE NoArtistSearch,
        LAMBDA search :
    Let(IF search.artist_found THEN search.artist_df ELSE FilterCascade(full, filters, top_k),
        LAMBDA filtered :
    Let(Len(filtered) < top_k /\ ~search.artist_found, LAMBDA reset :
        [tiers |-> search.tiers, hits |-> search.hits, artist_found |-> search.artist_found,
         artist_df |-> search.artist_df, filtered |-> filtered, reset |-> reset,
         df |-> IF reset THEN SafetyReset(full, filters, top_k) ELSE filtered])))

\* ranking: distance, drop_duplicates, nsmallest(top_k * 2), the loop
Rank(df, features, top_k) ==
    CollectTracks(nsmallest(drop_duplicates(df), top_k * 2, features), features, top_k, {}, <<>>)

\* MusicRecommender.recommend on the loaded data set: the tracks it returns,
\* with the intermediate values the properties speak of.
recommend(full, features, filters, top_k) ==
    Let(WorkingSet(full, filters, top_k), LAMBDA ws :
        [tiers |-> ws.tiers, hits |-> ws.hits, artist_found |-> ws.artist_found,
         artist_df |-> ws.artist_df, filtered |-> ws.filtered, reset |-> ws.reset,
         df |-> ws.df, tracks |-> Rank(ws.df, features, top_k)])

----------------------------------------------------------------------------
(* src/audio/emotion.py and src/llm/gigachat.py                            *)

\* EMOTION_MUSIC_PROFILES: the ranges <<low, high>>, in hundredths (tempo in
\* BPM); the description is kept as a label of the Russian text
EMOTION_MUSIC_PROFILES ==
    "happy" :> [valence |-> <<60, 90>>, energy |-> <<50, 80>>, danceability |-> <<50, 80>>,
                tempo |-> <<100, 140>>, description |-> "description:happy"] @@
    "sad" :> [valence |-> <<10, 40>>, energy |-> <<20, 50>>, danceability |-> <<20, 50>>,
              tempo |-> <<60, 100>>, description |-> "description:sad"] @@
    "angry" :> [valence |-> <<20, 50>>, energy |-> <<70, 100>>, danceability |-> <<40, 70>>,
                tempo |-> <<120, 180>>, description |-> "description:angry"] @@
    "neutral" :> [valence |-> <<40, 60>>, energy |-> <<40, 60>>, danceability |-> <<40, 60>>,
                  tempo |-> <<90, 120>>, description |-> "description:neutral"] @@
    "energetic" :> [valence |-> <<50, 80>>, energy |-> <<70, 100>>, danceability |-> <<60, 90>>,
                    tempo |-> <<120, 160>>, description |-> "description:energetic"] @@
    "calm" :> [valence |-> <<40, 70>>, energy |-> <<10, 40>>, danceability |-> <<20, 50>>,
               tempo |-> <<60, 100>>, description |-> "description:calm"] @@
    "anxious" :> [valence |-> <<20, 40>>, energy |-> <<50, 80>>, danceability |-> <<30, 50>>,
                  tempo |-> <<100, 140>>, description |-> "description:anxious"]

\* acousticness of the fallback parameters (0.3), in hundredths
FALLBACK_ACOUSTICNESS == 30

\* sum(range) / 2; every sum of the table is even in these units
Midpoint(range) == (range[1] + range[2]) \div 2

NoFilters ==
    [genres |-> {}, language |-> NULL, year_start |-> 0, year_end |-> 0, artist |-> NoText]

\* the dict _get_fallback_params builds of the emotion and its profile
FallbackParams(intent, emotion, profile) ==
    [tag |-> "object",
     mood_interpretation |-> [tag |-> "text", text |-> <<"mood: ", profile.description>>],
     features |-> [tag |-> "dict", value |->
         "valence" :> Midpoint(profile.valence) @@
         "energy" :> Midpoint(profile.energy) @@
         "danceability" :> Midpoint(profile.danceability) @@
         "acousticness" :> FALLBACK_ACOUSTICNESS @@
         "tempo" :> Midpoint(profile.tempo)],
     filters |-> [tag |-> "dict", value |->
         [genres |-> intent.genres, language |-> intent.language,
          year_start |-> 0, year_end |-> 0, artist |-> intent.artist]],
     explanation |-> <<"Fallback based on emotion ", emotion>>]

\* EMOTION_MUSIC_PROFILES.get(emotion, EMOTION_MUSIC_PROFILES["neutral"])
ProfileOf(emotion) ==
    IF emotion \in DOMAIN EMOTION_MUSIC_PROFILES THEN EMOTION_MUSIC_PROFILES[emotion]
    ELSE EMOTION_MUSIC_PROFILES["neutral"]

\* GigaChatService._get_fallback_params
_get_fallback_params(intent) ==
    Let(IF TruthyAtom(intent.audio_emotion) THEN intent.audio_emotion ELSE "neutral",
        LAMBDA emotion : FallbackParams(intent, emotion, ProfileOf(emotion)))

\* A reply of the model: response.content is a body, possibly between
\* Markdown code fences.  The body is prose ("text", with its characters) or
\* a JSON document ("json", with the value json.loads gives).
Content(prefix, body, suffix) == [prefix |-> prefix, body |-> body, suffix |-> suffix]

JsonNone == [tag |-> "None"]

\* the fences _parse_json_response cuts off: <fence> stands for three backquotes
Fences == {"", "<fence>", "<fence>json"}

\* GigaChatService._parse_json_response: the fences are cut off, then
\* json.loads; None on a JSONDecodeError (prose, or a fence it does not cut
\* off whole, such as <fence>text, which leaves a word before the document)
_parse_json_response(content) ==
    IF content.prefix \in Fences /\ content.suffix \in Fences /\ content.body.tag = "json"
    THEN content.body.json
    ELSE JsonNone

\* the truth value of a parsed JSON value
JsonTruthy(v) == v.tag \in {"object", "list"}

\* asyncio.Semaphore(5): the permits of LangChainGigaChatWithLimit._agenerate
TASK_SEMAPHORE == 5

\* the attempts of LangChainGigaChatWithLimit._agenerate
N_RETRY == 3

\* An outcome of llm.invoke: it raises, or it returns a reply.
Raises == [raises |-> TRUE]

Returns(content) == [raises |-> FALSE, content |-> content]

\* GigaChatService.analyze_music_request, once the client is there
analyze_music_request(intent, outcome) ==
    IF outcome.raises THEN _get_fallback_params(intent)
    ELSE Let(_parse_json_response(outcome.content), LAMBDA result :
             IF JsonTruthy(result) THEN result ELSE _get_fallback_params(intent))

\* the fixed replies, kept as labels of the Russian texts (none is empty)
FALLBACK_RESPONSES ==
    "happy" :> <<"reply:happy">> @@ "sad" :> <<"reply:sad">> @@ "angry" :> <<"reply:angry">> @@
    "energetic" :> <<"reply:energetic">> @@ "calm" :> <<"reply:calm">> @@
    "neutral" :> <<"reply:neutral">>

_get_fallback_response(intent) ==
    IF intent.audio_emotion \in DOMAIN FALLBACK_RESPONSES
    THEN FALLBACK_RESPONSES[intent.audio_emotion]
    ELSE FALLBACK_RESPONSES["neutral"]

\* the text of a reply: response.content of a prose reply
ContentText(content) == content.body.text

\* GigaChatService.generate_response, once the client is there
generate_response(intent, outcome) ==
    IF outcome.raises THEN _get_fallback_response(intent)
    ELSE Strip(ContentText(outcome.content))

CLARIFICATION_FALLBACK == <<"reply:clarification">>

\* GigaChatService.generate_clarification, once the client is there
generate_clarification(intent, outcome) ==
    IF outcome.raises THEN CLARIFICATION_FALLBACK
    ELSE Strip(ContentText(outcome.content))

\* whether a text has a character
NonEmptyText(t) == t # <<>> /\ t # NoText /\ \E i \in 1..Len(t) : t[i] # ""

----------------------------------------------------------------------------
(* src/spotify_client.py and src/track_validator.py                        *)

\* what the external catalog returns for a search, in order; a search with
\* limit n returns a prefix of at most n items (none on an error)
SPOTIFY_ITEMS ==
    << [spotify_id |-> "s1", name |-> <<"H","i","t">>, artist |-> <<"E","x","t">>,
        release_date |-> <<"2","0","2","0","-","0","5","-","0","1">>],
       [spotify_id |-> "s2", name |-> <<"U+0414","U+0430">>, artist |-> <<"U+042F">>,
        release_date |-> <<>>],
       [spotify_id |-> "s3", name |-> <<"a">>, artist |-> <<"n","a","n">>,
        release_date |-> <<"1","9","9","9">>],
       [spotify_id |-> "s4", name |-> <<"S","o","n","g">>, artist |-> <<"E","x","t">>,
        release_date |-> <<"2","0","1","0">>],
       [spotify_id |-> "s5", name |-> <<"T","u","n","e">>, artist |-> <<"E","x","t">>,
        release_date |-> <<"2","0","1","1">>] >>

DigitValue ==
    "0" :> 0 @@ "1" :> 1 @@ "2" :> 2 @@ "3" :> 3 @@ "4" :> 4 @@
    "5" :> 5 @@ "6" :> 6 @@ "7" :> 7 @@ "8" :> 8 @@ "9" :> 9

\* int(s) for a text of digits
RECURSIVE ParseInt(_, _)
ParseInt(s, acc) == IF s = <<>> THEN acc ELSE ParseInt(Tail(s), 10 * acc + DigitValue[Head(s)])

\* int(release_date[:4]) if release_date and len(release_date) >= 4 else None
ReleaseYear(release_date) ==
    IF Len(release_date) >= 4 THEN ParseInt(SubSeq(release_date, 1, 4), 0) ELSE MISSING

\* MusicRecommendationPipeline._search_spotify_tracks: the emotion -> mood table
mood_map ==
    "happy" :> "happy" @@ "sad" :> "sad" @@ "angry" :> "energetic" @@ "neutral" :> "calm" @@
    "fear" :> "calm" @@ "disgust" :> "sad" @@ "surprise" :> "energetic"

\* the Track made of an item of the external catalog
SpotifyTrack(item, language, features) ==
    [spotify_id |-> item.spotify_id, name |-> item.name, artist |-> item.artist,
     year |-> ReleaseYear(item.release_date), genres |-> {},
     language |-> IF TruthyAtom(language) THEN language ELSE "other",
     distance |-> 0]

\* the request _search_spotify_tracks sends, for the genre it picked
SearchRequest(intent, genre, limit) ==
    LET mood == IF intent.audio_emotion \in DOMAIN mood_map
                THEN mood_map[intent.audio_emotion] ELSE ""
        keywords == SubSeq(intent.keywords, 1, Min2(2, Len(intent.keywords)))
        query_parts == (IF genre # NULL THEN <<genre>> ELSE <<>>) \o keywords
    IN  IF mood # ""
        THEN [method |-> "search_by_mood", mood |-> mood, genre |-> genre,
              language |-> intent.language, limit |-> limit,
              market |-> IF intent.language = "ru" THEN "RU" ELSE "US"]
        ELSE [method |-> "search_tracks",
              query |-> IF query_parts # <<>> THEN query_parts ELSE <<"popular music">>,
              limit |-> limit,
              market |-> IF intent.language = "ru" THEN "RU" ELSE "US"]

CyrillicChars == {c \in Letters : Len(c) > 1}

LatinChars == Letters \ CyrillicChars

CountIn(text, chars) == Len(SelectSeq(text, LAMBDA c : c \in chars))

\* the language of a text with the given counts of letters
LanguageOfCounts(cyrillic_count, latin_count) ==
    IF cyrillic_count + latin_count = 0 THEN "other"
    ELSE IF 2 * cyrillic_count > cyrillic_count + latin_count THEN "ru"  \* share above 0.5
    ELSE IF 10 * latin_count > 8 * (cyrillic_count + latin_count) THEN "en"  \* share above 0.8
    ELSE "other"

\* TrackValidator.detect_language_from_text
detect_language_from_text(text) ==
    IF text = <<>> THEN "other"
    ELSE LanguageOfCounts(CountIn(text, CyrillicChars), CountIn(text, LatinChars))

HasCyrillic(text) == \E i \in 1..Len(text) : text[i] \in CyrillicChars

\* what the external catalog holds for a track that verify_with_spotify finds
SpotifyInfo(track) ==
    [name |-> track.name \o <<" ","(","R",")">>, artist |-> <<"E","x","t">>,
     release_date |-> <<"2","0","2","1">>, genres |-> {"pop"}]

ValidatorUnknownSpellings == {<<"u","n","k","n","o","w","n">>, <<"n","a","n">>, <<"n","o","n","e">>, <<>>}

\* the language validate_tracks settles on
ValidatedLanguage(name, artist, language) ==
    Let(detect_language_from_text(name \o <<" ">> \o artist), LAMBDA detected :
        IF detected # "other" THEN detected
        ELSE IF HasCyrillic(name) \/ HasCyrillic(artist) THEN "ru"
        ELSE IF language \notin {"en", "instrumental"} THEN "en"
        ELSE language)

\* the validated track of the fields validate_tracks settled on
ValidatedTrack(track, name, artist, year, genres, found) ==
    [spotify_id |-> track.spotify_id, name |-> name,
     artist |-> IF Lower(artist) \in ValidatorUnknownSpellings THEN UNKNOWN_ARTIST ELSE artist,
     year |-> year, language |-> ValidatedLanguage(name, artist, track.language),
     genres |-> genres, is_verified |-> found,
     verification_source |-> IF found THEN "spotify" ELSE "dataset"]

\* TrackValidator.validate_tracks on one track; found tells whether the
\* external lookup was made and gave a record
validate_track(track, found) ==
    IF found
    THEN Let(SpotifyInfo(track), LAMBDA info :
             ValidatedTrack(track, info.name, info.artist,
                            IF info.release_date # <<>>
                            THEN ParseInt(SubSeq(info.release_date, 1,
                                                 Min2(4, Len(info.release_date))), 0)
                            ELSE track.year,
                            IF info.genres # {} THEN info.genres ELSE track.genres, TRUE))
    ELSE ValidatedTrack(track, track.name, track.artist, track.year, track.genres, FALSE)

\* max_spotify_calls, as process_audio passes it
MAX_SPOTIFY_CALLS == 3

\* A variant of the positions that has no budget: every track with an id is
\* asked for. C24_BudgetedVerification tells it from VerifyPositions.
VerifyPositionsAll(tracks, max_spotify_calls, available) ==
    {i \in 1..Len(tracks) : tracks[i].spotify_id # "" /\ available}

\* the positions of tracks at which validate_and_enrich asks the external catalog
VerifyPositions(tracks, max_spotify_calls, available) ==
    {i \in 1..Len(tracks) : i <= max_spotify_calls /\ tracks[i].spotify_id # "" /\ available}

\* TrackValidator.validate_and_enrich(tracks, max_spotify_calls, use_gigachat=False);
\* found is the set of positions at which the lookup gave a record
validate_and_enrich(tracks, max_spotify_calls, available, found) ==
    AsList([i \in 1..Len(tracks) |->
        validate_track(tracks[i],
                       i \in VerifyPositions(tracks, max_spotify_calls, available) /\ i \in found)])

\* the Track process_audio makes of a validated track
ValidatedToTrack(v) ==
    [spotify_id |-> v.spotify_id, name |-> v.name, artist |-> v.artist, year |-> v.year,
     genres |-> v.genres, language |-> v.language, distance |-> 0]

----------------------------------------------------------------------------
(* The inputs of a request.                                                *)

AudioResult(status, reason, transcript, emotion, emotion_confidence) ==
    [status |-> status, reason |-> reason, transcript |-> transcript,
     emotion |-> emotion, emotion_confidence |-> emotion_confidence]

\* Cyrillic transcripts, with the text in the comment
Transcripts ==
    [a |-> <<"U+0430">>,                                                   \* а
     da_ya |-> <<"U+0434","U+0430"," ","U+044F">>,                         \* да я
     nu_da |-> <<"U+043D","U+0443"," ","U+0434","U+0430">>,                \* ну да
     rok |-> <<"U+0440","U+043E","U+043A">>,                               \* рок
     tih |-> <<"U+0442","U+0438","U+0445">>,                               \* тих
     nash_rok |-> <<"U+043D","U+0430","U+0448"," ","U+0440","U+043E","U+043A">>,   \* наш рок
     nu_face |-> <<"U+043D","U+0443"," ","F","a","c","e">>,                \* ну Face
     \* хочу грустный русский рок 2005 года
     rok_2005 |-> <<"U+0445","U+043E","U+0447","U+0443"," ","U+0433","U+0440","U+0443","U+0441",
                   "U+0442","U+043D","U+044B","U+0439"," ","U+0440","U+0443","U+0441","U+0441",
                   "U+043A","U+0438","U+0439"," ","U+0440","U+043E","U+043A"," ","2","0","0","5",
                   " ","U+0433","U+043E","U+0434","U+0430">>]

\* results of AudioProcessor.process with a status other than "ok"
RejectedAudio ==
    { AudioResult("invalid_audio", "silence", NoText, NULL, MISSING),
      AudioResult("invalid_audio", "too_short", NoText, NULL, MISSING),
      AudioResult("invalid_audio", "too_noisy", NoText, NULL, MISSING),
      AudioResult("invalid_audio", "transcript_too_short", Transcripts.a, "sad", 20),
      AudioResult("invalid_audio", NULL, NoText, NULL, MISSING),
      AudioResult("error", "no_audio_provided", NoText, NULL, MISSING),
      AudioResult("error", "boom", NoText, NULL, MISSING),
      AudioResult("failed", NULL, NoText, NULL, MISSING) }

\* results with status "ok": transcripts shorter than, as long as and longer
\* than five characters, with and without genre and mood words, and a
\* confidence below, at and above 0.5 or missing
AcceptedAudio ==
    { AudioResult("ok", NULL, Transcripts.a, "sad", 20),
      AudioResult("ok", NULL, Transcripts.da_ya, NULL, MISSING),
      AudioResult("ok", NULL, NoText, NULL, 49),
      AudioResult("ok", NULL, Transcripts.da_ya, "happy", 50),
      AudioResult("ok", NULL, Transcripts.rok, "sad", 20),
      AudioResult("ok", NULL, Transcripts.tih, "fear", 20),
      AudioResult("ok", NULL, Transcripts.nu_da, "anxious", 20),
      AudioResult("ok", NULL, Transcripts.nash_rok, NULL, MISSING),
      AudioResult("ok", NULL, Transcripts.rok_2005, "sad", 80),
      AudioResult("ok", NULL, Transcripts.nu_face, "happy", 80) }

F1 ==
    "valence" :> 25 @@ "energy" :> 30 @@ "danceability" :> 30 @@
    "acousticness" :> 30 @@ "tempo" :> 85

F2 == "valence" :> 90 @@ "tempo" :> 170

Filters(genres, language, year_start, year_end, artist) ==
    [genres |-> genres, language |-> language, year_start |-> year_start,
     year_end |-> year_end, artist |-> artist]

JsonObject(features, filters, mood_interpretation) ==
    [tag |-> "object", features |-> features, filters |-> filters,
     mood_interpretation |-> mood_interpretation]

Absent == [tag |-> "absent"]

JsonNull == [tag |-> "null"]

Dict(d) == [tag |-> "dict", value |-> d]

Text(t) == [tag |-> "text", text |-> t]

Json(v) == [tag |-> "json", json |-> v]

MoodText == Text(<<"c","a","l","m">>)

\* JSON documents the inference may answer with
AnalysisObjects ==
    { JsonObject(Dict(F1), Dict(NoFilters), MoodText),
      JsonObject(Dict(F2), Dict(Filters({"pop"}, "en", 0, 0, NoText)), MoodText),
      JsonObject(Dict(F1), Dict(Filters({"rock"}, "ru", 0, 0, q_face)), MoodText),
      JsonObject(Dict(F1), Dict(Filters({}, "ru", 2005, 2005, NoText)), Absent),
      JsonObject(Absent, Absent, MoodText),
      JsonObject(JsonNull, Dict(NoFilters), MoodText),
      JsonObject(Dict(F1), JsonNull, MoodText) }

\* the outcomes of llm.invoke for the analysis prompt
AnalysisOutcomes ==
    {Raises}
    \cup {Returns(Content("", Text(<<"s","o","r","r","y">>), ""))}
    \cup {Returns(Content("", Json([tag |-> "empty"]), ""))}
    \cup {Returns(Content("", Json([tag |-> "list"]), ""))}
    \cup {Returns(Content("", Json(o), "")) : o \in AnalysisObjects}
    \cup {Returns(Content("<fence>json", Json(JsonObject(Dict(F1), Dict(NoFilters), MoodText)), "<fence>")),
          Returns(Content("<fence>text", Json(JsonObject(Dict(F1), Dict(NoFilters), MoodText)), "<fence>"))}

\* the outcomes of llm.invoke for a prompt answered in prose
ProseOutcomes ==
    {Raises,
     Returns(Content("", Text(<<" ","O","K"," ">>), "")),
     Returns(Content("", Text(<<" "," ">>), ""))}

\* the contents data/tracks_cleaned.csv may have when a request loads it
PipelineDatasets == {RowsAt(1..n, 1) : n \in {0, 2, NumRows}}

----------------------------------------------------------------------------
(* src/pipeline.py and src/metrics.py: the state.                          *)

VARIABLES
    config,            \* use_spotify_search and validate_tracks of the constructor
    llm,               \* GigaChatService._llm: "None" or "ready"
    spotify,           \* what SpotifyClient._get_client gives: "unknown" until asked
    dataset,           \* MusicRecommender._df: [loaded |-> FALSE] or the rows
    pc,                \* where process_audio is
    top_k,
    audio_result,
    intent,
    analysis,          \* the dict analyze_music_request returned
    features,
    filters,
    mood_interpretation,
    tracks,
    search,            \* the request of the external fallback search
    validation,        \* the call of validate_and_enrich
    m,                 \* MetricsCollector._current
    metrics_file,      \* the rows of data/metrics.csv
    calls,             \* the stages and collaborators called, in order
    result,            \* <<>> or <<the PipelineResult returned>>
    exception,         \* the exception process_audio raised, "" if none
    rec,               \* the call of MusicRecommender.recommend
    reply,             \* the outcome of the last llm.invoke
    threads,           \* requests that run at the same time: each one's position
    in_flight,         \* the threads inside llm.invoke
    permits,           \* the value of TASK_SEMAPHORE
    collector,         \* MetricsCollector._current of the shared collector
    records,           \* the RequestMetrics objects, by request
    index              \* MusicRecommender._df of the shared recommender

vars ==
    <<config, llm, spotify, dataset, pc, top_k, audio_result, intent, analysis, features,
      filters, mood_interpretation, tracks, search, validation, m, metrics_file, calls,
      result, exception, rec, reply, threads, in_flight, permits, collector, records, index>>

\* the state the concurrent requests share
concurrent == <<threads, in_flight, permits, collector, records, index>>

services == <<config, llm, spotify, dataset>>

locals ==
    <<top_k, audio_result, intent, analysis, features, filters, mood_interpretation,
      tracks, search, validation, rec>>

None == [tag |-> "None"]

\* one request at a time: nothing runs beside it
NoThreads ==
    /\ threads = <<>>
    /\ in_flight = {}
    /\ permits = TASK_SEMAPHORE
    /\ collector = None
    /\ records = <<>>
    /\ index = None

\* RequestMetrics(), without the request id, the time stamp and the durations
RequestMetrics ==
    [active |-> TRUE, audio_valid |-> FALSE, validation_error |-> "", transcript |-> <<>>,
     transcript_length |-> 0, emotion |-> "", emotion_confidence |-> 0,
     intents_genre |-> {}, intents_language |-> "", intents_count |-> 0,
     llm_success |-> FALSE, target_valence |-> 0, target_energy |-> 0,
     target_danceability |-> 0, target_tempo |-> 0, tracks_found |-> 0,
     tracks_from_dataset |-> 0, tracks_from_spotify |-> 0, success |-> FALSE, error |-> ""]

\* MetricsCollector.save: a row of the current record, if there is one
save(file, current) == IF current.active THEN Append(file, current) ELSE file

PipelineResult(success, error_message, response_text, result_tracks, a, i, mood, f, flt) ==
    [success |-> success, error_message |-> error_message, response_text |-> response_text,
     tracks |-> result_tracks, transcript |-> a.transcript, audio_emotion |-> a.emotion,
     intent |-> i, mood_interpretation |-> mood, features |-> f, filters |-> flt]

\* _get_invalid_audio_message: the fixed texts, kept as labels
INVALID_AUDIO_MESSAGES ==
    "silence" :> <<"message:silence">> @@ "too_short" :> <<"message:too_short">> @@
    "too_noisy" :> <<"message:too_noisy">> @@
    "transcript_too_short" :> <<"message:transcript_too_short">> @@
    "no_audio_provided" :> <<"message:no_audio_provided">>

_get_invalid_audio_message(reason) ==
    IF reason \in DOMAIN INVALID_AUDIO_MESSAGES THEN INVALID_AUDIO_MESSAGES[reason]
    ELSE <<"message:something_went_wrong">>

\* error_messages.get(audio_result.status, "Unknown error")
ErrorMessage(a) ==
    IF a.status = "invalid_audio" THEN _get_invalid_audio_message(a.reason)
    ELSE IF a.status = "error" THEN <<"Error: ", a.reason>>
    ELSE <<"Unknown error">>

OrEmpty(atom) == IF atom = NULL THEN "" ELSE atom

TextOrEmpty(t) == IF t = NoText THEN <<>> ELSE t

NumberOrZero(n) == IF n = MISSING THEN 0 ELSE n

Init ==
    /\ config \in [use_spotify_search : BOOLEAN, validate_tracks_flag : BOOLEAN]
    /\ llm = "None"
    /\ spotify = "unknown"
    /\ dataset = [loaded |-> FALSE]
    /\ pc = "idle"
    /\ top_k = 0
    /\ audio_result = None
    /\ intent = None
    /\ analysis = None
    /\ features = <<>>
    /\ filters = NoFilters
    /\ mood_interpretation = <<>>
    /\ tracks = <<>>
    /\ search = None
    /\ validation = [called |-> FALSE]
    /\ m = [active |-> FALSE]
    /\ metrics_file = <<>>
    /\ calls = <<>>
    /\ result = <<>>
    /\ exception = ""
    /\ rec = [state |-> "none"]
    /\ reply = None
    /\ NoThreads

----------------------------------------------------------------------------
(* MusicRecommendationPipeline.process_audio, stage by stage.              *)

\* A variant of the rejection that returns without saving the metrics row.
\* C2_RejectedAudioStops tells it from RejectAudio.
RejectAudioUnsaved ==
    /\ pc = "idle"
    /\ \E k \in 1..MaxTopK, a \in RejectedAudio :
        /\ top_k' = k
        /\ audio_result' = a
        /\ m' = [RequestMetrics EXCEPT !.audio_valid = FALSE, !.success = FALSE]
        /\ result' = <<PipelineResult(FALSE, ErrorMessage(a), <<>>, <<>>, a, None, None,
                                      None, None)>>
    /\ calls' = Append(calls, "audio_processor.process")
    /\ pc' = "done"
    /\ UNCHANGED <<concurrent, reply, services, intent, analysis, features, filters, mood_interpretation,
                   tracks, search, validation, rec, metrics_file, exception>>

\* lines 68-100: the audio processor reports a status other than "ok"
RejectAudio ==
    /\ pc = "idle"
    /\ \E k \in 1..MaxTopK, a \in RejectedAudio :
        /\ top_k' = k
        /\ audio_result' = a
        /\ m' = [RequestMetrics EXCEPT !.audio_valid = FALSE,
                                       !.validation_error = OrEmpty(a.reason),
                                       !.success = FALSE,
                                       !.error = IF OrEmpty(a.reason) = "" THEN "invalid_audio"
                                                 ELSE a.reason]
        /\ metrics_file' = save(metrics_file, m')
        /\ calls' = calls \o <<"audio_processor.process", "metrics.save">>
        /\ result' = <<PipelineResult(FALSE, ErrorMessage(a), <<>>, <<>>, a, None, None,
                                      None, None)>>
        /\ pc' = "done"
    /\ UNCHANGED <<concurrent, reply, services, intent, analysis, features, filters, mood_interpretation,
                   tracks, search, validation, rec, exception>>

\* lines 68-109: the audio processor reports "ok"
AcceptAudio ==
    /\ pc = "idle"
    /\ \E k \in 1..MaxTopK, a \in AcceptedAudio :
        /\ top_k' = k
        /\ audio_result' = a
        /\ m' = [RequestMetrics EXCEPT !.audio_valid = TRUE,
                                       !.transcript = TextOrEmpty(a.transcript),
                                       !.transcript_length = Len(TextOrEmpty(a.transcript)),
                                       !.emotion = OrEmpty(a.emotion),
                                       !.emotion_confidence = NumberOrZero(a.emotion_confidence)]
        /\ calls' = Append(calls, "audio_processor.process")
        /\ pc' = "intent"
    /\ UNCHANGED <<concurrent, reply, services, intent, analysis, features, filters, mood_interpretation,
                   tracks, search, validation, rec, metrics_file, result, exception>>

\* the transcript length and the confidence below which a request is unclear
CLARIFY_LENGTH == 5

CLARIFY_CONFIDENCE == 50

\* lines 127-132
needs_clarification(a, i) ==
    /\ Len(TextOrEmpty(a.transcript)) < CLARIFY_LENGTH
    /\ i.genres = {}
    /\ i.mood_keywords = <<>>
    /\ NumberOrZero(a.emotion_confidence) < CLARIFY_CONFIDENCE

\* lines 111-134: intent extraction and the choice of the branch
ExtractIntent ==
    /\ pc = "intent"
    /\ intent' = extract_user_intent(audio_result.transcript, audio_result.emotion,
                                     audio_result.emotion_confidence)
    /\ m' = [m EXCEPT !.intents_genre = intent'.genres,
                      !.intents_language = OrEmpty(intent'.language),
                      !.intents_count = Cardinality(intent'.genres)
                                        + (IF TruthyAtom(intent'.language) THEN 1 ELSE 0)
                                        + (IF TruthyText(intent'.artist) THEN 1 ELSE 0)]
    /\ calls' = Append(calls, "extract_user_intent")
    /\ pc' = IF needs_clarification(audio_result, intent') THEN "clarify" ELSE "analyze"
    /\ UNCHANGED <<concurrent, reply, services, top_k, audio_result, analysis, features, filters,
                   mood_interpretation, tracks, search, validation, rec, metrics_file,
                   result, exception>>

\* GigaChatService._get_llm at the first use: get_llm raises (no API key, or
\* the client cannot be built); process_audio does not catch it
LlmClientFails ==
    /\ pc \in {"clarify", "analyze"}
    /\ llm = "None"
    /\ exception' = "ValueError"
    /\ calls' = Append(calls, "get_llm")
    /\ pc' = "raised"
    /\ UNCHANGED <<concurrent, reply, services, locals, m, metrics_file, result>>

\* lines 134-147: the clarification branch
Clarify ==
    /\ pc = "clarify"
    /\ \E outcome \in ProseOutcomes :
        /\ reply' = outcome
        /\ m' = [m EXCEPT !.success = TRUE]
        /\ metrics_file' = save(metrics_file, m')
        /\ result' = <<PipelineResult(TRUE, NoText, generate_clarification(intent, outcome),
                                      <<>>, audio_result, intent, None, None, None)>>
    /\ llm' = "ready"
    /\ calls' = calls \o <<"generate_clarification", "metrics.save">>
    /\ pc' = "done"
    /\ UNCHANGED <<concurrent, config, spotify, dataset, locals, exception>>

\* A variant of the merge in which the intent wins wherever it has a value.
\* C27_IntentFillsGaps tells it from MergeFilters.
MergeFiltersIntentFirst(flt, i) ==
    [flt EXCEPT !.language = IF TruthyAtom(i.language) THEN i.language ELSE flt.language,
                !.genres = IF i.genres # {} THEN i.genres ELSE flt.genres]

\* lines 171-174: language and genres of the intent fill the gaps of the filters
MergeFilters(flt, i) ==
    [flt EXCEPT !.language = IF TruthyAtom(i.language) /\ ~TruthyAtom(flt.language)
                             THEN i.language ELSE flt.language,
                !.genres = IF i.genres # {} /\ flt.genres = {} THEN i.genres ELSE flt.genres]

\* dict.get(key, default) on the feature target
GetFeature(f, key, default) == IF key \in DOMAIN f THEN f[key] ELSE default

\* whether lines 157-174 raise on the value analyze_music_request returned:
\* .get on a list, on features that are null, on filters that are null
AnalysisRaises(a) ==
    \/ a.tag # "object"
    \/ a.features.tag = "null"
    \/ a.filters.tag = "null"

\* A variant of the flag that is true only for parameters the inference
\* gave, not for the fallback. C29_FlagAlwaysTrue tells it from LlmSuccess.
LlmSuccessOfInference(a) == JsonTruthy(a) /\ "explanation" \notin DOMAIN a

\* line 155: m.llm_success = bool(analysis)
LlmSuccess(a) == JsonTruthy(a)

\* lines 149-174: parameter inference
Analyze ==
    /\ pc = "analyze"
    /\ llm' = "ready"
    /\ \E outcome \in AnalysisOutcomes :
       \E a \in {analyze_music_request(intent, outcome)} :
        /\ analysis' = a
        /\ reply' = outcome
        /\ calls' = Append(calls, "analyze_music_request")
        /\ IF AnalysisRaises(a)
           THEN /\ exception' = "AttributeError"
                /\ pc' = "raised"
                /\ m' = [m EXCEPT !.llm_success = LlmSuccess(a)]
                /\ UNCHANGED <<features, filters, mood_interpretation>>
           ELSE \E f \in {IF a.features.tag = "dict" THEN a.features.value ELSE <<>>} :
                /\ features' = f
                /\ filters' = MergeFilters(IF a.filters.tag = "dict" THEN a.filters.value
                                           ELSE NoFilters, intent)
                /\ mood_interpretation' =
                       IF a.mood_interpretation.tag = "text"
                       THEN a.mood_interpretation.text ELSE <<>>
                /\ m' = [m EXCEPT !.llm_success = LlmSuccess(a),
                                  !.target_valence = GetFeature(f, "valence", 0),
                                  !.target_energy = GetFeature(f, "energy", 0),
                                  !.target_danceability = GetFeature(f, "danceability", 0),
                                  !.target_tempo = GetFeature(f, "tempo", 0)]
                /\ exception' = ""
                /\ pc' = "recommend"
    /\ UNCHANGED <<concurrent, config, spotify, dataset, top_k, audio_result, intent, tracks, search,
                   validation, rec, metrics_file, result>>

\* MusicRecommender._load_data: neither data file is there
DatasetMissing ==
    /\ pc = "recommend"
    /\ ~dataset.loaded
    /\ exception' = "FileNotFoundError"
    /\ calls' = Append(calls, "recommend")
    /\ pc' = "raised"
    /\ UNCHANGED <<concurrent, reply, services, locals, m, metrics_file, result>>

\* lines 176-185: the local recommendation, the data set loaded at the first call
Recommend ==
    /\ pc = "recommend"
    /\ \E rows \in IF dataset.loaded THEN {dataset.rows} ELSE PipelineDatasets :
        /\ dataset' = [loaded |-> TRUE, rows |-> rows]
        /\ rec' = [state |-> "returned", full |-> rows, features |-> features,
                   filters |-> filters, top_k |-> top_k,
                   out |-> recommend(rows, features, filters, top_k)]
    /\ tracks' = rec'.out.tracks
    /\ m' = [m EXCEPT !.tracks_from_dataset = Len(tracks')]
    /\ calls' = Append(calls, "recommend")
    /\ pc' = "fallback"
    /\ UNCHANGED <<concurrent, reply, config, llm, spotify, top_k, audio_result, intent, analysis, features,
                   filters, mood_interpretation, search, validation, metrics_file, result,
                   exception>>

\* SpotifyClient.is_available: the client is built at the first call
Availability == IF spotify = "unknown" THEN {"available", "unavailable"} ELSE {spotify}

\* A variant of the limit that asks for top_k tracks however many the
\* recommender returned. C18_AtMostTopK tells it from SearchLimit.
SearchLimitWhole(k, local) == k

\* line 188: the limit of the fallback search, top_k - len(tracks)
SearchLimit(k, local) == k - Len(local)

\* A variant of the fallback that searches whenever the client is available,
\* however many tracks the recommender returned. C9_FallbackOnlyWhenShort
\* tells it from SpotifyFallback.
SpotifyFallbackAlways ==
    /\ pc = "fallback"
    /\ \E status \in Availability :
        /\ spotify' = status
        /\ IF status = "available"
           THEN \E n \in 0..1 :
                LET request == SearchRequest(intent, NULL, 1)
                    spotify_tracks ==
                        AsList([j \in 1..n |->
                                  SpotifyTrack(SPOTIFY_ITEMS[j], intent.language, features)])
                IN  /\ search' = [request |-> request, returned |-> spotify_tracks]
                    /\ tracks' = tracks \o spotify_tracks
                    /\ calls' = calls \o <<"spotify.is_available", request.method>>
           ELSE /\ UNCHANGED <<tracks, search>>
                /\ calls' = Append(calls, "spotify.is_available")
    /\ pc' = "validate"
    /\ UNCHANGED <<concurrent, reply, config, llm, dataset, top_k, audio_result, intent, analysis, features,
                   filters, mood_interpretation, validation, rec, metrics_file, result,
                   exception, m>>

\* lines 187-192 and 254-306: the external fallback search
SpotifyFallback ==
    /\ pc = "fallback"
    /\ IF ~config.use_spotify_search
       THEN /\ UNCHANGED <<spotify, tracks, search, m>>
            /\ calls' = calls
       ELSE \E status \in Availability :
            /\ spotify' = status
            /\ IF status = "available" /\ Len(tracks) < top_k
               THEN \E genre \in (IF intent.genres = {} THEN {NULL} ELSE intent.genres),
                       n \in 0..(SearchLimit(top_k, tracks)) :
                    LET request == SearchRequest(intent, genre, SearchLimit(top_k, tracks))
                        spotify_tracks ==
                            AsList([j \in 1..n |->
                                      SpotifyTrack(SPOTIFY_ITEMS[j], intent.language, features)])
                    IN  /\ search' = [request |-> request, returned |-> spotify_tracks]
                        /\ tracks' = tracks \o spotify_tracks
                        /\ m' = [m EXCEPT !.tracks_from_spotify =
                                     IF n > 0 THEN n ELSE m.tracks_from_spotify]
                        /\ calls' = calls \o <<"spotify.is_available", request.method>>
               ELSE /\ UNCHANGED <<tracks, search, m>>
                    /\ calls' = Append(calls, "spotify.is_available")
    /\ pc' = "validate"
    /\ UNCHANGED <<concurrent, reply, config, llm, dataset, top_k, audio_result, intent, analysis, features,
                   filters, mood_interpretation, validation, rec, metrics_file, result,
                   exception>>

\* SpotifyClient.search_tracks, lines 64-79: the items of the response are
\* converted after the try block, so an item without one of the fields read
\* there ("popularity", "album", "external_urls", ...) raises KeyError, which
\* _search_spotify_tracks and process_audio pass on
SearchTracksRaises ==
    /\ pc = "fallback"
    /\ config.use_spotify_search
    /\ "available" \in Availability
    /\ Len(tracks) < top_k
    /\ \E genre \in (IF intent.genres = {} THEN {NULL} ELSE intent.genres) :
        /\ search' = [request |-> SearchRequest(intent, genre, SearchLimit(top_k, tracks)),
                      returned |-> <<>>]
        /\ calls' = calls \o <<"spotify.is_available", search'.request.method>>
    /\ spotify' = "available"
    /\ exception' = "KeyError"
    /\ pc' = "raised"
    /\ UNCHANGED <<concurrent, reply, config, llm, dataset, top_k, audio_result, intent, analysis, features,
                   filters, mood_interpretation, tracks, validation, rec, metrics_file, result, m>>

\* A variant of the validation step that asks the external catalog for every
\* track, without the budget. C10_ValidatedWhenEnabled tells it from Validate.
ValidateUnbudgeted ==
    /\ pc = "validate"
    /\ IF config.validate_tracks_flag /\ tracks # <<>>
       THEN \E status \in Availability :
            \E asked \in {VerifyPositions(tracks, Len(tracks), status = "available")} :
            \E validated \in {validate_and_enrich(tracks, Len(tracks),
                                                   status = "available", asked)} :
                /\ spotify' = status
                /\ validation' = [called |-> TRUE, input |-> tracks,
                                  max_spotify_calls |-> Len(tracks),
                                  asked |-> asked, validated |-> validated]
                /\ tracks' = AsList([i \in 1..Len(validated) |->
                                        ValidatedToTrack(validated[i])])
                /\ calls' = Append(calls, "validate_and_enrich")
       ELSE UNCHANGED <<spotify, validation, tracks, calls>>
    /\ m' = [m EXCEPT !.tracks_found = Len(tracks')]
    /\ pc' = "respond"
    /\ UNCHANGED <<concurrent, reply, config, llm, dataset, top_k, audio_result, intent, analysis, features,
                   filters, mood_interpretation, search, rec, metrics_file, result, exception>>

\* lines 194-218: validation of the merged list
Validate ==
    /\ pc = "validate"
    /\ IF config.validate_tracks_flag /\ tracks # <<>>
       THEN \E status \in Availability :
            \E asked \in {VerifyPositions(tracks, MAX_SPOTIFY_CALLS, status = "available")} :
            \E found \in SUBSET asked :
            \E validated \in {validate_and_enrich(tracks, MAX_SPOTIFY_CALLS,
                                                   status = "available", found)} :
                /\ spotify' = status
                /\ validation' = [called |-> TRUE, input |-> tracks,
                                  max_spotify_calls |-> MAX_SPOTIFY_CALLS,
                                  asked |-> asked, validated |-> validated]
                /\ tracks' = AsList([i \in 1..Len(validated) |->
                                        ValidatedToTrack(validated[i])])
                /\ calls' = Append(calls, "validate_and_enrich")
       ELSE UNCHANGED <<spotify, validation, tracks, calls>>
    /\ m' = [m EXCEPT !.tracks_found = Len(tracks')]
    /\ pc' = "respond"
    /\ UNCHANGED <<concurrent, reply, config, llm, dataset, top_k, audio_result, intent, analysis, features,
                   filters, mood_interpretation, search, rec, metrics_file, result, exception>>

\* lines 220-242: the response and the return
Respond ==
    /\ pc = "respond"
    /\ \E outcome \in ProseOutcomes :
        /\ reply' = outcome
        /\ result' = <<PipelineResult(TRUE, NoText, generate_response(intent, outcome), tracks,
                                      audio_result, intent, mood_interpretation, features,
                                      filters)>>
    /\ m' = [m EXCEPT !.success = TRUE]
    /\ metrics_file' = save(metrics_file, m')
    /\ calls' = calls \o <<"generate_response", "metrics.save">>
    /\ pc' = "done"
    /\ UNCHANGED <<concurrent, services, locals, exception>>

Next ==
    \/ RejectAudio
    \/ AcceptAudio
    \/ ExtractIntent
    \/ LlmClientFails
    \/ Clarify
    \/ Analyze
    \/ DatasetMissing
    \/ Recommend
    \/ SpotifyFallback
    \/ SearchTracksRaises
    \/ Validate
    \/ Respond

Spec == Init /\ [][Next]_vars

----------------------------------------------------------------------------
(* MusicRecommender.recommend on its own: every data set, filter set,      *)
(* feature target and top_k of the bounds.                                 *)

RecommendFilters ==
    {Filters(g, l, y[1], y[2], a) :
        g \in {{}, {"rock"}}, l \in {NULL, "ru", "en"},
        y \in {<<0, 0>>, <<2005, 2005>>, <<2000, 0>>},
        a \in {NoText, q_face, q_feys, q_abba}}

RecInit ==
    /\ config = [use_spotify_search |-> TRUE, validate_tracks_flag |-> TRUE]
    /\ llm = "None"
    /\ spotify = "unknown"
    /\ pc = "recommender"
    /\ top_k = 0
    /\ audio_result = None
    /\ intent = None
    /\ analysis = None
    /\ features = <<>>
    /\ filters = NoFilters
    /\ mood_interpretation = <<>>
    /\ tracks = <<>>
    /\ search = None
    /\ validation = [called |-> FALSE]
    /\ m = [active |-> FALSE]
    /\ metrics_file = <<>>
    /\ calls = <<>>
    /\ result = <<>>
    /\ exception = ""
    /\ reply = None
    /\ NoThreads
    /\ \E rows \in Datasets, f \in {F1, F2}, flt \in RecommendFilters, k \in 1..MaxTopK :
        /\ dataset = [loaded |-> TRUE, rows |-> rows]
        /\ rec = [state |-> "called", full |-> rows, features |-> f, filters |-> flt,
                  top_k |-> k]

\* recommend(features, filters, top_k)
RecommendCall ==
    /\ pc = "recommender"
    /\ rec.state = "called"
    /\ rec' = [state |-> "returned", full |-> rec.full, features |-> rec.features,
               filters |-> rec.filters, top_k |-> rec.top_k,
               out |-> recommend(dataset.rows, rec.features, rec.filters, rec.top_k)]
    /\ UNCHANGED <<concurrent, reply, services, pc, top_k, audio_result, intent, analysis, features, filters,
                   mood_interpretation, tracks, search, validation, m, metrics_file, calls,
                   result, exception>>

RecNext == RecommendCall

RecSpec == RecInit /\ [][RecNext]_vars

----------------------------------------------------------------------------
(* The non-artist branch of recommend on its own: filter sets without an   *)
(* artist or with one nobody in the data set matches, every language value *)
(* the branch tells apart.                                                 *)

CascadeFilters ==
    {Filters(g, l, y[1], y[2], a) :
        g \in {{}, {"rock"}, {"pop"}}, l \in {NULL, "ru", "other", "any"},
        y \in {<<0, 0>>, <<2005, 2005>>, <<2000, 0>>, <<0, 2004>>},
        a \in {NoText, q_abba}}

CascadeInit ==
    /\ config = [use_spotify_search |-> TRUE, validate_tracks_flag |-> TRUE]
    /\ llm = "None"
    /\ spotify = "unknown"
    /\ pc = "recommender"
    /\ top_k = 0
    /\ audio_result = None
    /\ intent = None
    /\ analysis = None
    /\ features = <<>>
    /\ filters = NoFilters
    /\ mood_interpretation = <<>>
    /\ tracks = <<>>
    /\ search = None
    /\ validation = [called |-> FALSE]
    /\ m = [active |-> FALSE]
    /\ metrics_file = <<>>
    /\ calls = <<>>
    /\ result = <<>>
    /\ exception = ""
    /\ reply = None
    /\ NoThreads
    /\ \E rows \in Datasets, flt \in CascadeFilters, k \in 1..MaxTopK :
        /\ dataset = [loaded |-> TRUE, rows |-> rows]
        /\ rec = [state |-> "called", full |-> rows, features |-> F1, filters |-> flt,
                  top_k |-> k]

CascadeSpec == CascadeInit /\ [][RecNext]_vars


----------------------------------------------------------------------------
(* Requests that run at the same time, in threads of one process.  The     *)
(* pipeline, the LLM service, the metrics collector and the recommender     *)
(* are process-wide singletons (get_pipeline, get_gigachat_service,         *)
(* get_collector, get_music_recommender), so the threads share them.        *)

\* the variables of the single request, which the threads below leave alone
sequential ==
    <<config, llm, spotify, dataset, pc, top_k, audio_result, intent, analysis, features,
      filters, mood_interpretation, tracks, search, validation, m, calls, result,
      exception, rec, reply>>

\* no single request is under way
NoRequest ==
    /\ config = [use_spotify_search |-> TRUE, validate_tracks_flag |-> TRUE]
    /\ llm = "ready"
    /\ spotify = "unknown"
    /\ dataset = [loaded |-> FALSE]
    /\ pc = "threads"
    /\ top_k = 0
    /\ audio_result = None
    /\ intent = None
    /\ analysis = None
    /\ features = <<>>
    /\ filters = NoFilters
    /\ mood_interpretation = <<>>
    /\ tracks = <<>>
    /\ search = None
    /\ validation = [called |-> FALSE]
    /\ m = [active |-> FALSE]
    /\ calls = <<>>
    /\ result = <<>>
    /\ exception = ""
    /\ rec = [state |-> "none"]
    /\ reply = None

----------------------------------------------------------------------------
(* The inference calls of concurrent requests.  GigaChatService calls      *)
(* llm.invoke (gigachat.py lines 45, 93, 118).  invoke is the synchronous  *)
(* entry of the chat model and runs _generate; the semaphore and the retry *)
(* loop of LangChainGigaChatWithLimit are in _agenerate, the coroutine     *)
(* behind ainvoke, which no code of the repository calls.                  *)

\* the threads that make an inference call
NumCallers == 6

Callers == 1..NumCallers

LlmInit ==
    /\ NoRequest
    /\ metrics_file = <<>>
    /\ threads = [t \in Callers |-> [pc |-> "idle", attempts |-> 0]]
    /\ in_flight = {}
    /\ permits = TASK_SEMAPHORE
    /\ collector = None
    /\ records = <<>>
    /\ index = None

\* llm.invoke(...) begins: one attempt, the semaphore is not asked
InvokeStart(t) ==
    /\ threads[t].pc = "idle"
    /\ threads' = [threads EXCEPT ![t] = [pc |-> "invoke", attempts |-> @.attempts + 1]]
    /\ in_flight' = in_flight \cup {t}
    /\ UNCHANGED <<sequential, metrics_file, permits, collector, records, index>>

\* llm.invoke returns the reply
InvokeReturn(t) ==
    /\ threads[t].pc = "invoke"
    /\ threads' = [threads EXCEPT ![t].pc = "returned"]
    /\ in_flight' = in_flight \ {t}
    /\ UNCHANGED <<sequential, metrics_file, permits, collector, records, index>>

\* llm.invoke raises: the except clause of the service takes the exception
\* and the fixed fallback is used
InvokeRaise(t) ==
    /\ threads[t].pc = "invoke"
    /\ threads' = [threads EXCEPT ![t].pc = "raised"]
    /\ in_flight' = in_flight \ {t}
    /\ UNCHANGED <<sequential, metrics_file, permits, collector, records, index>>

LlmNext ==
    \E t \in Callers :
        \/ InvokeStart(t)
        \/ InvokeReturn(t)
        \/ InvokeRaise(t)

LlmSpec == LlmInit /\ [][LlmNext]_vars

----------------------------------------------------------------------------
(* The metrics of concurrent requests.  get_collector returns one          *)
(* MetricsCollector for the process; its _current field is the only place  *)
(* where it keeps the RequestMetrics of the request under way.  records is *)
(* the heap of RequestMetrics objects, one per request, named by the       *)
(* request that created it; m of a request is a reference to its own.      *)

\* the requests that run process_audio at the same time
NumRequests == 3

Requests == 1..NumRequests

\* _current is None, _lock is free
NOBODY == 0

MetricsInit ==
    /\ NoRequest
    /\ metrics_file = <<>>
    /\ threads = [t \in Requests |-> [pc |-> "idle", success |-> FALSE]]
    /\ in_flight = {}
    /\ permits = TASK_SEMAPHORE
    /\ collector = [_current |-> NOBODY, _lock |-> NOBODY]
    /\ records = [t \in Requests |-> [request_id |-> NOBODY, success |-> FALSE, finalized |-> FALSE]]
    /\ index = None

\* m = metrics.start_request(user_id): a new RequestMetrics replaces _current
start_request(t) ==
    /\ threads[t].pc = "idle"
    /\ records' = [records EXCEPT ![t] = [request_id |-> t, success |-> FALSE, finalized |-> FALSE]]
    /\ collector' = [collector EXCEPT !._current = t]
    /\ threads' = [threads EXCEPT ![t].pc = "running"]
    /\ UNCHANGED <<sequential, metrics_file, in_flight, permits, index>>

\* m.success = ... : the request writes its outcome through its own reference
SetSuccess(t) ==
    /\ threads[t].pc = "running"
    /\ \E ok \in BOOLEAN :
        /\ records' = [records EXCEPT ![t].success = ok]
        /\ threads' = [threads EXCEPT ![t] = [pc |-> "filled", success |-> ok]]
    /\ UNCHANGED <<sequential, metrics_file, in_flight, permits, collector, index>>

\* metrics.finalize(): the processing time is written to whatever _current is
finalize(t) ==
    /\ threads[t].pc = "filled"
    /\ records' =
        IF collector._current = NOBODY THEN records
        ELSE [records EXCEPT ![collector._current].finalized = TRUE]
    /\ threads' = [threads EXCEPT ![t].pc = "finalized"]
    /\ UNCHANGED <<sequential, metrics_file, in_flight, permits, collector, index>>

\* metrics.save(), with _lock: the lock is taken
AcquireLock(t) ==
    /\ threads[t].pc = "finalized"
    /\ collector._current # NOBODY
    /\ collector._lock = NOBODY
    /\ collector' = [collector EXCEPT !._lock = t]
    /\ threads' = [threads EXCEPT ![t].pc = "locked"]
    /\ UNCHANGED <<sequential, metrics_file, in_flight, permits, records, index>>

\* metrics.save(), under the lock: m = self._current, the row of m is
\* appended, the lock is released and process_audio returns
save_row(t) ==
    /\ threads[t].pc = "locked"
    /\ metrics_file' = Append(metrics_file, records[collector._current])
    /\ collector' = [collector EXCEPT !._lock = NOBODY]
    /\ threads' = [threads EXCEPT ![t].pc = "returned"]
    /\ UNCHANGED <<sequential, in_flight, permits, records, index>>

MetricsNext ==
    \E t \in Requests :
        \/ start_request(t)
        \/ SetSuccess(t)
        \/ finalize(t)
        \/ AcquireLock(t)
        \/ save_row(t)

MetricsSpec == MetricsInit /\ [][MetricsNext]_vars

----------------------------------------------------------------------------
(* The first load of the catalog by concurrent recommend calls.            *)
(* get_music_recommender returns one MusicRecommender for the process;     *)
(* index is its _df.  _load_data has no lock, assigns the frame read from  *)
(* the file to self._df first and then converts it in place, column by     *)
(* column, each time through self._df.                                     *)

\* self._df after __init__
NotLoaded == [loaded |-> FALSE, builds |-> 0, numeric |-> FALSE, genres_parsed |-> FALSE, language |-> FALSE]

\* what a caller of _load_data has not got yet
NoFrame == [loaded |-> FALSE, numeric |-> FALSE, genres_parsed |-> FALSE, language |-> FALSE]

\* df = self._load_data().copy(): the frame as it is when _load_data returns
Copy(df) ==
    [loaded |-> df.loaded, numeric |-> df.numeric, genres_parsed |-> df.genres_parsed,
     language |-> df.language]

LoadInit ==
    /\ NoRequest
    /\ metrics_file = <<>>
    /\ threads = [t \in Requests |-> [pc |-> "idle", df |-> NoFrame]]
    /\ in_flight = {}
    /\ permits = TASK_SEMAPHORE
    /\ collector = None
    /\ records = <<>>
    /\ index = NotLoaded

\* if self._df is not None: return self._df
CheckLoaded(t) ==
    /\ threads[t].pc = "idle"
    /\ threads' =
        IF index.loaded
        THEN [threads EXCEPT ![t] = [pc |-> "using", df |-> Copy(index)]]
        ELSE [threads EXCEPT ![t].pc = "read_csv"]
    /\ UNCHANGED <<sequential, metrics_file, in_flight, permits, collector, records, index>>

\* self._df = pd.read_csv(path, ...): a frame as the file holds it is published
ReadCsv(t) ==
    /\ threads[t].pc = "read_csv"
    /\ index' = [loaded |-> TRUE, builds |-> index.builds + 1, numeric |-> FALSE,
                 genres_parsed |-> FALSE, language |-> FALSE]
    /\ threads' = [threads EXCEPT ![t].pc = "to_numeric"]
    /\ UNCHANGED <<sequential, metrics_file, in_flight, permits, collector, records>>

\* self._df[col] = pd.to_numeric(self._df[col], errors="coerce")
ToNumeric(t) ==
    /\ threads[t].pc = "to_numeric"
    /\ index' = [index EXCEPT !.numeric = TRUE]
    /\ threads' = [threads EXCEPT ![t].pc = "parse_genres"]
    /\ UNCHANGED <<sequential, metrics_file, in_flight, permits, collector, records>>

\* self._df["genres_parsed"] = self._df["genres"].apply(self._parse_genres)
ParseGenres(t) ==
    /\ threads[t].pc = "parse_genres"
    /\ index' = [index EXCEPT !.genres_parsed = TRUE]
    /\ threads' = [threads EXCEPT ![t].pc = "fill_language"]
    /\ UNCHANGED <<sequential, metrics_file, in_flight, permits, collector, records>>

\* self._df["language"] = self._df["language"].fillna("other"); return self._df
FillLanguage(t) ==
    /\ threads[t].pc = "fill_language"
    /\ index' = [index EXCEPT !.language = TRUE]
    /\ threads' = [threads EXCEPT ![t] = [pc |-> "using", df |-> Copy(index')]]
    /\ UNCHANGED <<sequential, metrics_file, in_flight, permits, collector, records>>

LoadNext ==
    \E t \in Requests :
        \/ CheckLoaded(t)
        \/ ReadCsv(t)
        \/ ToNumeric(t)
        \/ ParseGenres(t)
        \/ FillLanguage(t)

LoadSpec == LoadInit /\ [][LoadNext]_vars

----------------------------------------------------------------------------
(* The language TrackValidator.validate_tracks settles on, on its own:     *)
(* every name and artist of the bounds, made of a Latin letter, a Cyrillic *)
(* letter, a digit and a space, and every language a track comes with.     *)

\* the longest name and artist
MaxNameLen == 3

NameChars == {"a", "U+0430", "1", " "}

\* the texts of at most n characters of NameChars
Texts(n) == UNION {[1..k -> NameChars] : k \in 0..n}

\* the language column of a track before validation
PriorLanguages == {"ru", "en", "other", "instrumental"}

LangInit ==
    /\ config = [use_spotify_search |-> TRUE, validate_tracks_flag |-> TRUE]
    /\ llm = "None"
    /\ spotify = "unknown"
    /\ dataset = [loaded |-> FALSE]
    /\ pc = "validator"
    /\ top_k = 0
    /\ audio_result = None
    /\ intent = None
    /\ analysis = None
    /\ features = <<>>
    /\ filters = NoFilters
    /\ mood_interpretation = <<>>
    /\ tracks = <<>>
    /\ search = None
    /\ m = [active |-> FALSE]
    /\ metrics_file = <<>>
    /\ calls = <<>>
    /\ result = <<>>
    /\ exception = ""
    /\ rec = [state |-> "none"]
    /\ reply = None
    /\ NoThreads
    /\ \E name \in Texts(MaxNameLen), artist \in Texts(1), language \in PriorLanguages :
        validation = [called |-> FALSE, name |-> AsList(name), artist |-> AsList(artist),
                      language |-> language]

\* lines 186-193 of validate_tracks, for a track that was not verified
SettleLanguage ==
    /\ pc = "validator"
    /\ ~validation.called
    /\ validation' = [called |-> TRUE, name |-> validation.name, artist |-> validation.artist,
                      prior |-> validation.language,
                      language |-> ValidatedLanguage(validation.name, validation.artist,
                                                     validation.language)]
    /\ UNCHANGED <<concurrent, reply, config, llm, spotify, dataset, pc, top_k, audio_result, intent,
                   analysis, features, filters, mood_interpretation, tracks, search, m,
                   metrics_file, calls, result, exception, rec>>

LangNext == SettleLanguage

LangSpec == LangInit /\ [][LangNext]_vars

----------------------------------------------------------------------------
(* LangChainGigaChatWithLimit._agenerate on its own: the coroutines of one *)
(* event loop that await it, one more than the semaphore has permits.      *)
(* threads[t] is the frame of coroutine t: where it is and its loop        *)
(* variable attempt (counted from 1; 0 before the loop and after the frame *)
(* is gone); in_flight is the set of coroutines inside async with.         *)

\* the coroutines that await _agenerate
NumTasks == TASK_SEMAPHORE + 1

Tasks == 1..NumTasks

RetryInit ==
    /\ NoRequest
    /\ metrics_file = <<>>
    /\ threads = [t \in Tasks |-> [pc |-> "idle", attempts |-> 0]]
    /\ in_flight = {}
    /\ permits = TASK_SEMAPHORE
    /\ collector = None
    /\ records = <<>>
    /\ index = None

\* async with self._semaphore, entered: at the first attempt, or once
\* asyncio.sleep(RETRY_DELAY) is over; the coroutine waits while no permit is free
AcquirePermit(t) ==
    /\ threads[t].pc \in {"idle", "delay"}
    /\ permits > 0
    /\ permits' = permits - 1
    /\ in_flight' = in_flight \cup {t}
    /\ threads' = [threads EXCEPT ![t] = [pc |-> "attempt", attempts |-> @.attempts + 1]]
    /\ UNCHANGED <<sequential, metrics_file, collector, records, index>>

\* result = await super()._agenerate(...); return result
AttemptReturns(t) ==
    /\ threads[t].pc = "attempt"
    /\ permits' = permits + 1
    /\ in_flight' = in_flight \ {t}
    /\ threads' = [threads EXCEPT ![t] = [pc |-> "returned", attempts |-> 0]]
    /\ UNCHANGED <<sequential, metrics_file, collector, records, index>>

\* A variant of the failing attempt that keeps the permit.
\* C26_NoPermitLeak tells it from AttemptRaises.
AttemptRaisesHolding(t) ==
    /\ threads[t].pc = "attempt"
    /\ threads' = [threads EXCEPT ![t] =
                      IF @.attempts < N_RETRY THEN [pc |-> "delay", attempts |-> @.attempts]
                      ELSE [pc |-> "raised", attempts |-> 0]]
    /\ UNCHANGED <<sequential, metrics_file, in_flight, permits, collector, records, index>>

\* the attempt raises: async with releases the permit, then except Exception
\* sleeps if an attempt is left and otherwise raise last_exception
AttemptRaises(t) ==
    /\ threads[t].pc = "attempt"
    /\ permits' = permits + 1
    /\ in_flight' = in_flight \ {t}
    /\ threads' = [threads EXCEPT ![t] =
                      IF @.attempts < N_RETRY THEN [pc |-> "delay", attempts |-> @.attempts]
                      ELSE [pc |-> "raised", attempts |-> 0]]
    /\ UNCHANGED <<sequential, metrics_file, collector, records, index>>

\* the coroutine is cancelled: CancelledError is not an Exception, so it
\* leaves _agenerate; inside async with the permit is released on the way
Cancel(t) ==
    /\ threads[t].pc \in {"idle", "delay", "attempt"}
    /\ permits' = IF t \in in_flight THEN permits + 1 ELSE permits
    /\ in_flight' = in_flight \ {t}
    /\ threads' = [threads EXCEPT ![t] = [pc |-> "cancelled", attempts |-> 0]]
    /\ UNCHANGED <<sequential, metrics_file, collector, records, index>>

RetryNext ==
    \E t \in Tasks :
        \/ AcquirePermit(t)
        \/ AttemptReturns(t)
        \/ AttemptRaises(t)
        \/ Cancel(t)

RetrySpec == RetryInit /\ [][RetryNext]_vars

----------------------------------------------------------------------------
(* Properties of process_audio.                                            *)

\* how often a stage or collaborator was called
CallCount(name) == Len(SelectSeq(calls, LAMBDA c : c = name))

Called(name) == CallCount(name) > 0

\* the position of the first call of name in calls, 0 if there is none
FirstCall(name) ==
    IF Called(name) THEN MinOf({i \in 1..Len(calls) : calls[i] = name}) ELSE 0

\* the calls of the stages after intent extraction, other than the replies
DOWNSTREAM_CALLS ==
    {"analyze_music_request", "recommend", "search_by_mood", "search_tracks",
     "validate_and_enrich", "generate_response"}

\* the last row of data/metrics.csv
LastRow == metrics_file[Len(metrics_file)]

\* C1 as the specification states it: an exception raised in any stage of
\* process_audio does not leave it; a result with success = false, an error
\* message and no tracks is returned, and a metrics row with success = false
\* and the exception text in error is saved.
C1_ExceptionsContained ==
    exception # "" =>
        /\ result # <<>>
        /\ result[1].success = FALSE
        /\ NonEmptyText(result[1].error_message)
        /\ result[1].tracks = <<>>
        /\ metrics_file # <<>>
        /\ LastRow.success = FALSE
        /\ LastRow.error = exception

\* C2: when the audio processor reports a status other than "ok", the request
\* ends there: a result with success = false and no tracks, no stage after
\* the audio processor called, and exactly one metrics row, with
\* audio_valid = false and success = false, saved before the return.
C2_RejectedAudioStops ==
    (pc # "idle" /\ audio_result.status # "ok") =>
        /\ pc = "done"
        /\ result # <<>>
        /\ result[1].success = FALSE
        /\ result[1].tracks = <<>>
        /\ calls = <<"audio_processor.process", "metrics.save">>
        /\ Len(metrics_file) = 1
        /\ metrics_file[1].audio_valid = FALSE
        /\ metrics_file[1].success = FALSE

C2_Witness ==
    /\ pc = "done"
    /\ audio_result.status = "invalid_audio"
    /\ audio_result.reason = "silence"
    /\ Len(metrics_file) = 1

\* the condition C3 gives for the clarification branch
C3_Unclear ==
    /\ Len(TextOrEmpty(audio_result.transcript)) < CLARIFY_LENGTH
    /\ intent.genres = {}
    /\ intent.mood_keywords = <<>>
    /\ NumberOrZero(audio_result.emotion_confidence) < CLARIFY_CONFIDENCE

\* C3 as the specification states it: with the status "ok", the
\* clarification branch is taken exactly when the transcript is shorter than
\* five characters, no genre and no mood word was found and the confidence
\* (0 for none) is below 0.5; the branch returns success = true, no tracks and
\* a clarification text that is not empty, and calls neither the inference
\* nor the recommender, the external catalog or the validator.
C3_ClarificationAsStated ==
    pc \in {"clarify", "analyze", "recommend", "fallback", "validate", "respond", "done",
            "raised"} /\ audio_result.status = "ok" =>
        /\ (pc = "clarify" \/ Called("generate_clarification") \/
            (pc = "raised" /\ ~Called("analyze_music_request") /\ C3_Unclear)) <=> C3_Unclear
        /\ C3_Unclear =>
              \/ pc = "clarify"
              \/ /\ pc = "done"
                 /\ result[1].success = TRUE
                 /\ result[1].tracks = <<>>
                 /\ NonEmptyText(result[1].response_text)
                 /\ \A c \in DOWNSTREAM_CALLS : ~Called(c)

\* the midpoints C4 names, for the emotion the audio processor reported
C4_Midpoints ==
    Let(ProfileOf(IF TruthyAtom(audio_result.emotion) THEN audio_result.emotion ELSE "neutral"),
        LAMBDA profile :
            /\ features["valence"] * 2 = profile.valence[1] + profile.valence[2]
            /\ features["energy"] * 2 = profile.energy[1] + profile.energy[2]
            /\ features["danceability"] * 2 = profile.danceability[1] + profile.danceability[2]
            /\ features["tempo"] * 2 = profile.tempo[1] + profile.tempo[2])

\* whether the inference failed: the call raised, or its reply does not parse
C4_InferenceFailed ==
    \/ exception = "ValueError" /\ ~C3_Unclear
    \/ /\ Called("analyze_music_request")
       /\ ~Called("generate_response")
       /\ \/ reply.raises
          \/ _parse_json_response(reply.content) = JsonNone

\* C4 as the specification states it: when the inference call raises or its
\* output does not parse, the pipeline does not fail: it goes on to the
\* recommendation with valence, energy, danceability and tempo at the
\* midpoints of the profile of the emotion, with an explanation attached.
C4_InferenceFailureAbsorbed ==
    /\ pc \in {"recommend", "fallback", "validate", "raised"} /\ audio_result.status = "ok"
       /\ C4_InferenceFailed =>
           /\ exception \notin {"ValueError", "AttributeError"}
           /\ C4_Midpoints
           /\ NonEmptyText(analysis.explanation)
    /\ pc = "done" /\ Called("analyze_music_request") =>
           /\ result[1].success
           /\ "explanation" \in DOMAIN analysis => C4_Midpoints

\* C5 as the specification states it: a returned result with success = true
\* carries a response text that is not empty; one with success = false
\* carries an error message that is not empty and no tracks.
C5_ResultShape ==
    result # <<>> =>
        /\ result[1].success => NonEmptyText(result[1].response_text)
        /\ ~result[1].success =>
              NonEmptyText(result[1].error_message) /\ result[1].tracks = <<>>

\* what the local recommender returned
LocalTracks == rec.out.tracks

\* the external fallback search was called
SearchCalled == Called("search_by_mood") \/ Called("search_tracks")

\* the list process_audio has after the fallback step
MergedTracks == IF validation.called THEN validation.input ELSE tracks

\* C9: the external fallback search is called only if the local recommender
\* returned fewer than top_k tracks and the external client is available (and
\* the search is switched on); otherwise there is no search call and the list
\* after the step is the list of the local recommender.
C9_FallbackOnlyWhenShort ==
    pc \in {"validate", "respond", "done"} /\ audio_result.status = "ok"
    /\ Called("recommend") =>
        /\ SearchCalled <=>
              /\ config.use_spotify_search
              /\ spotify = "available"
              /\ Len(LocalTracks) < top_k
        /\ SearchCalled => CallCount("search_by_mood") + CallCount("search_tracks") = 1
        /\ SearchCalled => MergedTracks = LocalTracks \o search.returned
        /\ ~SearchCalled => MergedTracks = LocalTracks

C9_Witness ==
    /\ pc = "done"
    /\ SearchCalled
    /\ search.returned # <<>>
    /\ LocalTracks # <<>>

\* the list validation is to run over: the local tracks, then the external ones
C10_Merged == LocalTracks \o (IF SearchCalled THEN search.returned ELSE <<>>)

\* C10 as the specification states it: every request that passes the entry
\* guard and does not take the clarification branch has validate_and_enrich
\* run over the merged list, with the budget of external calls, before the
\* response is generated.
C10_AlwaysValidated ==
    pc \in {"respond", "done"} /\ audio_result.status = "ok" /\ Called("recommend") =>
        /\ validation.called
        /\ validation.input = C10_Merged

\* C10, amended: validation runs when it is switched on and the merged list
\* is not empty, and only then; it runs once, over the merged list, asks the
\* external catalog for the first MAX_SPOTIFY_CALLS tracks at most, and is
\* complete before the response is generated.
C10_ValidatedWhenEnabled ==
    pc \in {"respond", "done"} /\ audio_result.status = "ok" /\ Called("recommend") =>
        /\ validation.called <=> (config.validate_tracks_flag /\ C10_Merged # <<>>)
        /\ validation.called <=> Called("validate_and_enrich")
        /\ validation.called =>
              /\ CallCount("validate_and_enrich") = 1
              /\ validation.input = C10_Merged
              /\ Len(validation.validated) = Len(C10_Merged)
              /\ validation.max_spotify_calls = MAX_SPOTIFY_CALLS
              /\ validation.asked \subseteq 1..MAX_SPOTIFY_CALLS
              /\ \A i \in 1..Len(validation.validated) :
                    validation.validated[i].is_verified => i <= MAX_SPOTIFY_CALLS
              /\ Called("generate_response") =>
                    FirstCall("validate_and_enrich") < FirstCall("generate_response")

C10_Witness ==
    /\ pc = "done"
    /\ validation.called
    /\ Len(validation.input) > MAX_SPOTIFY_CALLS
    /\ SearchCalled
    /\ validation.validated[MAX_SPOTIFY_CALLS].is_verified

----------------------------------------------------------------------------
(* Properties of MusicRecommender.recommend.                               *)

Returned == rec.state = "returned"

\* the normalised names of a list of rows or tracks
Names(list) == {name_lower(list[i].name) : i \in 1..Len(list)}

\* C6: recommend returns at most top_k tracks, and no two of them have the
\* same normalised (lower-cased, trimmed) name.
C6_AtMostTopKDistinct ==
    Returned =>
        /\ Len(rec.out.tracks) <= rec.top_k
        /\ \A i, j \in 1..Len(rec.out.tracks) :
              i # j => name_lower(rec.out.tracks[i].name) # name_lower(rec.out.tracks[j].name)

C6_Witness ==
    /\ Returned
    /\ Len(rec.out.tracks) = rec.top_k
    /\ rec.top_k >= 2
    /\ Cardinality(Names(rec.full)) < Len(rec.full)
    /\ Len(rec.out.df) > rec.top_k

\* C7 as the specification states it: when no artist tier matched and the
\* data set has at least top_k rows with pairwise distinct normalised names,
\* recommend returns exactly top_k tracks, whatever the filters.
C7_ExactlyTopK ==
    Returned /\ ~rec.out.artist_found /\ Cardinality(Names(rec.full)) >= rec.top_k =>
        Len(rec.out.tracks) = rec.top_k

\* the first sequence of hits that is not empty, <<>> if there is none
FirstHit(hits) ==
    IF \E i \in 1..Len(hits) : hits[i] # <<>>
    THEN hits[MinOf({i \in 1..Len(hits) : hits[i] # <<>>})]
    ELSE <<>>

\* what C8 says of the three hit sets
C8_Tiers(out, exact, partial, fuzzy) ==
    /\ out.tiers = IF exact # <<>> THEN <<"exact">>
                   ELSE IF partial # <<>> THEN <<"exact", "partial">>
                   ELSE <<"exact", "partial", "fuzzy">>
    /\ out.artist_found <=> (exact # <<>> \/ partial # <<>> \/ fuzzy # <<>>)
    /\ out.artist_df = FirstHit(<<exact, partial, fuzzy>>)
    /\ out.artist_found => out.df = out.artist_df

\* C8: with an artist asked for, the tiers are tried in the order exact,
\* substring, fuzzy; the substring tier is evaluated only if the exact tier
\* has no hit, the fuzzy tier only if both have none, and the artist working
\* set is the hit set of the first tier with a hit.
C8_TiersInOrder ==
    Returned /\ TruthyText(rec.filters.artist) =>
        Let(Strip(Lower(Resolved(rec.filters.artist))), LAMBDA artist_lower :
            C8_Tiers(rec.out,
                Filter(rec.full, LAMBDA r : match_artist_exact(r.artist, artist_lower)),
                Filter(rec.full, LAMBDA r : match_artist_partial(r.artist, artist_lower)),
                Filter(rec.full, LAMBDA r : match_artist_fuzzy(r.artist, artist_lower))))

C8_Witness ==
    /\ Returned
    /\ rec.out.tiers = <<"exact", "partial", "fuzzy">>
    /\ rec.out.artist_found
    /\ Len(rec.full) > Len(rec.out.artist_df)


----------------------------------------------------------------------------
(* Properties of concurrent requests.                                      *)

\* C11 as the specification states it: at any instant at most
\* TASK_SEMAPHORE inference calls of the pipeline are in flight; a call
\* beyond the limit waits for a permit.
C11_InFlightBounded ==
    /\ Cardinality(in_flight) <= TASK_SEMAPHORE
    /\ Cardinality(in_flight) + permits = TASK_SEMAPHORE

\* C12 as the specification states it: an inference call is attempted up to
\* N_RETRY times; the exception is raised only after N_RETRY failed attempts,
\* and a call that succeeds has made at most N_RETRY attempts.
C12_RetriedBeforeRaise ==
    \A t \in DOMAIN threads :
        /\ threads[t].pc = "raised" => threads[t].attempts = N_RETRY
        /\ threads[t].pc = "returned" => threads[t].attempts \in 1..N_RETRY

\* the rows of the metrics file that carry the request id of request t
RowsOf(t) == {i \in DOMAIN metrics_file : metrics_file[i].request_id = t}

\* C13 as the specification states it: every request that has returned has
\* appended exactly one metrics row, and the row carries the request's own
\* id and its own values.
C13_OneOwnRowPerRequest ==
    \A t \in DOMAIN threads :
        (threads[t].pc = "returned" /\ "success" \in DOMAIN threads[t]) =>
            /\ Cardinality(RowsOf(t)) = 1
            /\ \A i \in RowsOf(t) :
                /\ metrics_file[i].success = threads[t].success
                /\ metrics_file[i].finalized

\* a frame with numeric feature columns, the parsed genre list and the
\* defaulted language column
Built(df) == df.loaded /\ df.numeric /\ df.genres_parsed /\ df.language

\* C14 as the specification states it: the catalog index is built once, and
\* no recommend call gets an index that is only partly built.
C14_BuiltOnceAndWhole ==
    "builds" \in DOMAIN index =>
        /\ index.builds <= 1
        /\ \A t \in DOMAIN threads : threads[t].pc = "using" => Built(threads[t].df)

\* the last call process_audio has made
LastCall == IF calls = <<>> THEN "" ELSE calls[Len(calls)]

\* C15 as the specification states it: a call of the external catalog client
\* returns an empty result on any failure, also on a response whose items
\* lack fields, so that no exception of it reaches the pipeline.
C15_CatalogFailuresAbsorbed ==
    pc = "raised" => LastCall \notin {"search_tracks", "search_by_mood"}

\* a parsed reply of the wrong shape: not an object, an object without
\* features or without filters, or with filters that are null
WrongShape(j) ==
    IF j.tag # "object" THEN TRUE
    ELSE j.features.tag = "absent" \/ j.filters.tag \in {"absent", "null"}

\* the inference has answered, and the answer is not valid JSON or is JSON
\* of the wrong shape
C16_Malformed ==
    /\ LastCall = "analyze_music_request"
    /\ ~reply.raises
    /\ WrongShape(_parse_json_response(reply.content))

\* C16 as the specification states it: malformed inference output is treated
\* as an inference failure; the pipeline uses the fallback parameters and
\* does not crash on it.
C16_MalformedOutputIsFailure ==
    C16_Malformed =>
        /\ pc # "raised"
        /\ analysis = _get_fallback_params(intent)

\* C17 as the specification states it: the error message of a rejected audio
\* result depends on the reason alone; silence, too_short, too_noisy,
\* transcript_too_short and no_audio_provided have their own fixed strings
\* and any other reason has the generic one.
C17_MessageByReason ==
    (pc = "done" /\ audio_result.status # "ok") =>
        result[1].error_message = _get_invalid_audio_message(audio_result.reason)

\* C18: the track list of a returned result has at most top_k entries, also
\* when the local tracks were extended by the external fallback search.
C18_AtMostTopK ==
    result # <<>> => Len(result[1].tracks) <= top_k

\* a returned result of top_k tracks, some local and some of the fallback
C18_Witness ==
    /\ pc = "done"
    /\ result[1].success
    /\ SearchCalled
    /\ Len(LocalTracks) >= 1
    /\ Len(search.returned) >= 1
    /\ Len(result[1].tracks) = top_k

\* C19 as the specification states it: for the transcript about sad Russian
\* rock of 2005 the intent has the genre rock and the language ru, and the
\* filter set handed to recommend when the inference has failed and the
\* fallback parameters are used has year_start = year_end = 2005, language
\* ru and no artist.
C19_Rock2005 ==
    (audio_result # None /\ audio_result.transcript = Transcripts.rok_2005 /\ intent # None) =>
        /\ "rock" \in intent.genres
        /\ intent.language = "ru"
        /\ (rec.state = "returned" /\ "explanation" \in DOMAIN analysis) =>
              /\ rec.filters.year_start = 2005
              /\ rec.filters.year_end = 2005
              /\ rec.filters.language = "ru"
              /\ rec.filters.artist = NoText

\* the rows of df the language, genre, year_start and year_end filters keep
ByLanguage(df) == SelectSeq(df, LAMBDA r : r.language = rec.filters.language)

ByGenre(df) ==
    SelectSeq(df, LAMBDA r : r.genres_parsed \cap _expand_genres(rec.filters.genres) # {})

ByYearStart(df) == SelectSeq(df, LAMBDA r : r.year # MISSING /\ r.year >= rec.filters.year_start)

ByYearEnd(df) == SelectSeq(df, LAMBDA r : r.year # MISSING /\ r.year <= rec.filters.year_end)

\* a filter that is set narrows df to kept if and only if kept has top_k rows
Narrowed(df, set, kept) == IF set /\ Len(kept) >= rec.top_k THEN kept ELSE df

\* the working set after language, genre, year_start and year_end in this
\* order, the language filter counting as set when language_set holds
Cascaded(language_set) ==
    Let(Narrowed(rec.full, language_set, ByLanguage(rec.full)), LAMBDA by_language :
    Let(Narrowed(by_language, rec.filters.genres # {}, ByGenre(by_language)), LAMBDA by_genre :
    Let(Narrowed(by_genre, rec.filters.year_start # 0, ByYearStart(by_genre)), LAMBDA by_start :
        Narrowed(by_start, rec.filters.year_end # 0, ByYearEnd(by_start)))))

\* recommend has returned and no artist was found
NonArtistBranch == rec.state = "returned" /\ ~rec.out.artist_found

\* C20 as the specification states it: in the non-artist branch every filter
\* that is given, the language among them, narrows the working set if and
\* only if the narrowed set keeps top_k records, in the order language,
\* genre, year_start, year_end; and a catalog of top_k records gives a
\* working set of top_k records.
C20_CascadeAsStated ==
    NonArtistBranch =>
        /\ rec.out.filtered = Cascaded(TruthyAtom(rec.filters.language))
        /\ Len(rec.full) >= rec.top_k => Len(rec.out.df) >= rec.top_k

\* C20, amended: the same, except that a language of other or any is not a
\* filter and never narrows.
C20_CascadeInOrder ==
    NonArtistBranch =>
        /\ rec.out.filtered =
               Cascaded(TruthyAtom(rec.filters.language)
                        /\ rec.filters.language \notin {"other", "any"})
        /\ Len(rec.full) >= rec.top_k => Len(rec.out.df) >= rec.top_k

\* the language filter has narrowed the set and the year_start filter, which
\* would have left fewer than top_k rows, was skipped
C20_Witness ==
    /\ NonArtistBranch
    /\ rec.filters.language = "ru"
    /\ rec.filters.year_start # 0
    /\ Len(rec.out.filtered) < Len(rec.full)
    /\ Len(ByYearStart(rec.out.filtered)) < rec.top_k
    /\ Len(rec.out.df) >= rec.top_k

----------------------------------------------------------------------------
(* Further properties of recommend, the fallback search, the validator and *)
(* the metrics.                                                            *)

\* the filter set with the artist of the call and nothing else
ArtistOnly == [NoFilters EXCEPT !.artist = rec.filters.artist]

\* C21: when an artist tier has a hit, the working set handed to ranking is
\* that tier's hit set, with top_k hits or with fewer; the language, genre
\* and year filters and the reset change nothing, no row of another artist
\* is in it, and fewer than top_k tracks may be returned.
C21_ArtistSetUntouched ==
    Returned /\ rec.out.artist_found =>
        /\ rec.out.df = rec.out.artist_df
        /\ rec.out.df # <<>>
        /\ ~rec.out.reset
        /\ Len(rec.out.tracks) <= Len(rec.out.artist_df)
        /\ rec.out.tracks = recommend(rec.full, rec.features, ArtistOnly, rec.top_k).tracks

\* fewer hits than top_k, and a language filter that would drop one of them
C21_Witness ==
    /\ Returned
    /\ rec.out.artist_found
    /\ Len(rec.out.artist_df) < rec.top_k
    /\ Len(rec.full) >= rec.top_k
    /\ TruthyAtom(rec.filters.language)
    /\ \E i \in 1..Len(rec.out.artist_df) : rec.out.artist_df[i].language # rec.filters.language
    /\ Len(rec.out.tracks) < rec.top_k

\* C22 as the specification states it: of the working-set rows that share a
\* normalised name the one returned is the nearest to the target, and the
\* returned tracks are in ascending order of distance.
C22_NearestDuplicateKept ==
    Returned =>
        /\ \A i \in 1..Len(rec.out.tracks), j \in 1..Len(rec.out.df) :
              name_lower(rec.out.df[j].name) = name_lower(rec.out.tracks[i].name) =>
                  rec.out.tracks[i].distance <= _calculate_distance(rec.out.df[j], rec.features)
        /\ \A i, j \in 1..Len(rec.out.tracks) :
              i < j => rec.out.tracks[i].distance <= rec.out.tracks[j].distance

\* C23 as the specification states it: in the fallback search an emotion
\* that is present is mapped to a mood term and search_by_mood is called;
\* search_tracks, with the free-text query, is called only when there is
\* no emotion.
C23_MoodSearchWhenEmotion ==
    SearchCalled =>
        IF TruthyAtom(intent.audio_emotion)
        THEN /\ search.request.method = "search_by_mood"
             /\ intent.audio_emotion \in DOMAIN mood_map
             /\ search.request.mood = mood_map[intent.audio_emotion]
        ELSE /\ search.request.method = "search_tracks"
             /\ search.request.market = (IF intent.language = "ru" THEN "RU" ELSE "US")

\* C24: validate_and_enrich asks the external catalog only for tracks at the
\* first max_spotify_calls positions; a track at a later position comes back
\* unverified, with the source dataset and without a lookup, and a track is
\* verified exactly when its source is the external catalog.
C24_BudgetedVerification ==
    validation.called =>
        /\ Len(validation.validated) = Len(validation.input)
        /\ validation.asked \subseteq 1..validation.max_spotify_calls
        /\ \A i \in 1..Len(validation.validated) :
              /\ i > validation.max_spotify_calls =>
                    /\ ~validation.validated[i].is_verified
                    /\ validation.validated[i].verification_source = "dataset"
              /\ validation.validated[i].is_verified
                    <=> validation.validated[i].verification_source = "spotify"
              /\ validation.validated[i].is_verified => i \in validation.asked

\* more tracks than the budget, all of the budget spent and verified
C24_Witness ==
    /\ validation.called
    /\ Len(validation.input) > validation.max_spotify_calls
    /\ validation.asked = 1..validation.max_spotify_calls
    /\ \A i \in validation.asked : validation.validated[i].is_verified

\* the Cyrillic and the Latin letters of name, a space and artist
CyrillicCount == CountIn(validation.name \o <<" ">> \o validation.artist, CyrillicChars)

LatinCount == CountIn(validation.name \o <<" ">> \o validation.artist, LatinChars)

\* C25 as the specification states it: the language is ru when the Cyrillic
\* letters are more than half of the letters, en when the Latin letters are
\* more than 80% of them, otherwise ru if there is a Cyrillic letter, and
\* otherwise en only for a track without an explicit language of its own; an
\* explicit language is kept.
C25_LanguageRederived ==
    (pc = "validator" /\ validation.called) =>
        validation.language =
            IF 2 * CyrillicCount > CyrillicCount + LatinCount THEN "ru"
            ELSE IF 10 * LatinCount > 8 * (CyrillicCount + LatinCount) THEN "en"
            ELSE IF CyrillicCount > 0 THEN "ru"
            ELSE IF validation.prior = "other" THEN "en"
            ELSE validation.prior

\* the coroutines whose call of _agenerate is over
Completed == {t \in DOMAIN threads : threads[t].pc \in {"returned", "raised", "cancelled"}}

\* C26: a permit is held by the coroutines inside an attempt and by nobody
\* else, so none is held during the delay or after the call; the permits
\* taken and the permits free add up to the initial number, and when all
\* calls are over every permit is free.
C26_NoPermitLeak ==
    /\ permits >= 0
    /\ permits + Cardinality(in_flight) = TASK_SEMAPHORE
    /\ in_flight = {t \in DOMAIN threads : threads[t].pc = "attempt"}
    /\ Completed = DOMAIN threads => permits = TASK_SEMAPHORE

\* every call is over, one returned, one raised after the last attempt and
\* one was cancelled
C26_Witness ==
    /\ Completed = DOMAIN threads
    /\ \E t \in DOMAIN threads : threads[t].pc = "returned"
    /\ \E t \in DOMAIN threads : threads[t].pc = "raised"
    /\ \E t \in DOMAIN threads : threads[t].pc = "cancelled"
    /\ permits = TASK_SEMAPHORE

\* process_audio has called analyze_music_request
InferenceReached == \E i \in DOMAIN calls : calls[i] = "analyze_music_request"

\* C29: on every request that reaches parameter inference and returns, the
\* llm_success flag of the request's metrics and of the row it saved is true,
\* for the fallback parameters as for the parameters the inference gave.
C29_FlagAlwaysTrue ==
    (pc = "done" /\ InferenceReached) =>
        /\ m.llm_success
        /\ m.active => /\ metrics_file # <<>>
                       /\ metrics_file[Len(metrics_file)].llm_success

\* a request has returned with the fallback parameters and its row is saved
C29_Witness ==
    /\ pc = "done"
    /\ InferenceReached
    /\ "explanation" \in DOMAIN analysis
    /\ metrics_file # <<>>
    /\ metrics_file[Len(metrics_file)].llm_success

\* the filters analyze_music_request returned, before the merge
Inferred == IF analysis.filters.tag = "dict" THEN analysis.filters.value ELSE NoFilters

\* process_audio has merged the filters with the intent
Merged == InferenceReached /\ ~AnalysisRaises(analysis)

\* C27: after the merge the language is the inferred one if there is one and
\* otherwise the intent's, the genres are the inferred ones if there are any
\* and otherwise the intent's, and year_start, year_end and artist are as
\* inferred.
C27_IntentFillsGaps ==
    Merged =>
        /\ filters.language = IF TruthyAtom(Inferred.language) THEN Inferred.language
                              ELSE IF TruthyAtom(intent.language) THEN intent.language
                              ELSE Inferred.language
        /\ filters.genres = IF Inferred.genres # {} THEN Inferred.genres ELSE intent.genres
        /\ filters.year_start = Inferred.year_start
        /\ filters.year_end = Inferred.year_end
        /\ filters.artist = Inferred.artist

\* the inference gave a language and genres other than the intent's, and the
\* merged filters keep them
C27_Witness ==
    /\ Merged
    /\ TruthyAtom(Inferred.language) /\ TruthyAtom(intent.language)
    /\ Inferred.language # intent.language
    /\ Inferred.genres # {} /\ intent.genres # {}
    /\ Inferred.genres # intent.genres
    /\ filters.language = Inferred.language
    /\ filters.genres = Inferred.genres

\* the inference gave neither language nor genres, and the merged filters
\* have the intent's
C27_Backfilled ==
    /\ Merged
    /\ "explanation" \notin DOMAIN analysis
    /\ ~TruthyAtom(Inferred.language) /\ Inferred.genres = {}
    /\ filters.language = intent.language /\ TruthyAtom(intent.language)
    /\ filters.genres = intent.genres /\ intent.genres # {}

\* C28: the safety reset fires exactly when no artist was found and the
\* filtered set has fewer than top_k rows, which happens only for a catalog
\* of fewer than top_k rows; the working set ranked after it is the whole
\* catalog.
C28_ResetGivesWholeCatalog ==
    Returned =>
        /\ rec.out.reset <=> (~rec.out.artist_found /\ Len(rec.out.filtered) < rec.top_k)
        /\ rec.out.reset => /\ Len(rec.full) < rec.top_k
                            /\ rec.out.df = rec.full

\* the reset has fired for a language that some rows of the catalog have and
\* others have not
C28_Witness ==
    /\ Returned
    /\ rec.out.reset
    /\ TruthyAtom(rec.filters.language) /\ rec.filters.language # "other"
    /\ \E i \in 1..Len(rec.full) : rec.full[i].language = rec.filters.language
    /\ \E i \in 1..Len(rec.full) : rec.full[i].language # rec.filters.language
    /\ rec.out.df = rec.full

\* the parameters are the fallback of _get_fallback_params
FallbackUsed == "explanation" \in DOMAIN analysis

\* C30: the intent has no artist; when the fallback parameters are used the
\* filters handed to recommend have no artist and recommend finds none; and
\* when recommend has found an artist, the parameters are those of a
\* successful inference call that named one.
C30_NoArtistOnFallback ==
    /\ intent # None => intent.artist = NoText
    /\ (rec.state = "returned" /\ FallbackUsed) =>
          /\ rec.filters.artist = NoText
          /\ ~rec.out.artist_found
    /\ (rec.state = "returned" /\ rec.out.artist_found) =>
          /\ ~FallbackUsed
          /\ TruthyText(Inferred.artist)

\* the transcript names an artist of the catalog, the fallback parameters are
\* used and recommend has returned without an artist
C30_Witness ==
    /\ audio_result # None
    /\ audio_result.transcript = Transcripts.nu_face
    /\ rec.state = "returned"
    /\ FallbackUsed
    /\ ArtistSearch(rec.full, q_face).artist_found
    /\ ~rec.out.artist_found

\* recommend has entered the artist branch for an artist the inference named
C30_ArtistBranchReached ==
    /\ rec.state = "returned"
    /\ rec.out.artist_found
    /\ ~FallbackUsed
=============================================================================
